---- MODULE Spec2Model ----
(***************************************************************************)
(* Group snapshot controller of the RBD driver: CreateVolumeGroupSnapshot,  *)
(* DeleteVolumeGroupSnapshot and GetVolumeGroupSnapshot, running as         *)
(* concurrent request handlers against one lock registry and one storage    *)
(* cluster.  Every call into the manager / the cluster is one atomic step   *)
(* of the calling handler; handlers interleave between those steps.         *)
(***************************************************************************)
EXTENDS Integers, Sequences, FiniteSets, TLC

(* ------------------------------ bounds -------------------------------- *)
\* group snapshot IDs the cluster hands out in one behaviour
MaxIDs == 1
\* calls into the cluster that fail, in one behaviour, for a reason of the
\* cluster's own
MaxFaults == 2

\* the request handlers that run concurrently
Procs == {"h1", "h2"}

Nil == "nil"

\* request names; the second is the temporary group name of the first
Names == {"s", "s-vg"}
\* volumes that exist in the cluster
Vols == {"v1", "v2"}
\* volume IDs a request can carry; "vX" resolves to nothing
VolIDs == Vols \cup {"vX"}

IdOf(k) == "id" \o ToString(k)
SnapIDs == {IdOf(k) : k \in 1..MaxIDs}

Range(s) == {s[j] : j \in 1..Len(s)}
\* the sourceVolumeIds lists of the requests: no volume, two volumes, and
\* an ID that does not resolve, last and first
IdLists ==
  {<<>>, <<"v1", "v2">>, <<"v1", "vX">>, <<"vX", "v2">>}

\* status codes PrepareVolumeForSnapshot can fail with
PrepCodes == {"Internal", "Unknown"}

VARIABLES
  locks,     \* VolumeGroupLocks: the keys that are held
  groups,    \* names of the volume groups in the cluster
  members,   \* <<group, volume>>: volume is an image of group
  snaps,     \* the group snapshots in the cluster
  nextId,    \* index of the next group snapshot ID
  call,      \* per handler: the call it runs
  faults,    \* number of failures of the cluster so far
  leaked,    \* history: the groups whose Delete in a cleanup failed
  conv,      \* the object handed to ToCSI outside a request, and the result
  util       \* the call of a function of the volume or of util that runs

vars == <<locks, groups, members, snaps, nextId, call, faults, leaked, conv, util>>
storage == <<groups, members, snaps, nextId>>

NoResp == [id |-> Nil, members |-> {}, ready |-> FALSE]

\* no object is being converted outside a request
NoConv == [kind |-> "none", in |-> Nil, out |-> Nil, done |-> FALSE]

\* no function of the volume or of util is being called
NoUtil == [fn |-> "none"]

\* A call: the request (op, name, ids), the handler's locals (pc, i, volumes,
\* vg, creds, errList, code, resp) and a record of what it has done so far.
NewCall(op, key, ids) ==
  [op |-> op, pc |-> "lock", name |-> key, ids |-> ids, i |-> 1,
   volumes |-> [j \in 1..Len(ids) |-> Nil], vg |-> Nil, creds |-> "none",
   errList |-> <<>>, code |-> "none", resp |-> NoResp, acquired |-> FALSE,
   ops |-> {}, failStep |-> "none", failIdx |-> 0, lookup |-> "none",
   added |-> {}, rmCalled |-> {}, removed |-> {}, rmFailed |-> FALSE,
   delFailed |-> FALSE, destroyed |-> {}, prior |-> NoResp, prepared |-> 0]

IdleCall == [NewCall("none", Nil, <<>>) EXCEPT !.pc = "idle"]

\* a request turned away at the lock: it has returned, nothing was deferred
Rejected(op, key) ==
  [NewCall(op, key, <<>>) EXCEPT !.pc = "rejected", !.code = "Aborted",
                                !.failStep = "lock"]

(* ----------------- lock registry and storage cluster ------------------ *)
TryAcquire(k) == k \notin locks

MembersOf(g) == {v \in Vols : <<g, v>> \in members}
InOtherGroup(g, v) == \E m \in members : m[2] = v /\ m[1] # g

ByName(n) == {s \in snaps : s.name = n}
ByID(id) == {s \in snaps : s.id = id}

\* ToCSI of a group snapshot: an error when a required field is unset
ToCSIOk(s) == s.ok
ToCSI(s) == [id |-> s.id, members |-> s.members, ready |-> TRUE]

VgName(n) == n \o "-vg"

Set(p, c) == call' = [call EXCEPT ![p] = c]

\* the outcome of a call into the cluster: it works, or the cluster fails
Works == faults' = faults
Breaks == faults < MaxFaults /\ faults' = faults + 1

Init ==
  /\ locks = {}
  /\ groups = {}
  /\ members = {}
  /\ snaps = {}
  /\ nextId = 1
  /\ call = [p \in Procs |-> IdleCall]
  /\ faults = 0
  /\ leaked = {}
  /\ conv = NoConv
  /\ util = NoUtil

(* ----------------------- CreateVolumeGroupSnapshot -------------------- *)
\* EnterCleanup of a closure that frees the volumes and leaves the group
EnterCleanup_SkipGroup(c) ==
  LET d == [c EXCEPT !.creds = IF c.creds = "live" THEN "deleted" ELSE c.creds]
  IN  [d EXCEPT !.pc = "release",
                !.destroyed = {j \in 1..Len(d.ids) : d.volumes[j] # Nil}]

\* EnterCleanup of a closure that frees the volumes only after a group was
\* made
EnterCleanup_NoDestroy(c) ==
  LET d == [c EXCEPT !.creds = IF c.creds = "live" THEN "deleted" ELSE c.creds]
  IN  IF d.vg = Nil
        THEN [d EXCEPT !.pc = "release"]
        ELSE IF Len(d.ids) = 0
               THEN [d EXCEPT !.pc = "delgroup"]
               ELSE [d EXCEPT !.pc = "rmvol", !.i = 1]

\* EnterCleanup without the deferred DeleteCredentials
EnterCleanup_KeepCreds(c) ==
  IF c.vg = Nil
    THEN [c EXCEPT !.pc = "release",
                   !.destroyed = {j \in 1..Len(c.ids) : c.volumes[j] # Nil}]
    ELSE IF Len(c.ids) = 0
           THEN [c EXCEPT !.pc = "delgroup"]
           ELSE [c EXCEPT !.pc = "rmvol", !.i = 1]

\* The deferred calls of Create up to the first call into the cluster:
\* creds.DeleteCredentials(), then the cleanup closure.  Without a group the
\* closure only frees the resolved volumes.
EnterCleanup(c) ==
  LET d == [c EXCEPT !.creds = IF c.creds = "live" THEN "deleted" ELSE c.creds]
  IN  IF d.vg = Nil
        THEN [d EXCEPT !.pc = "release",
                       !.destroyed = {j \in 1..Len(d.ids) : d.volumes[j] # Nil}]
        ELSE IF Len(d.ids) = 0
               THEN [d EXCEPT !.pc = "delgroup"]
               ELSE [d EXCEPT !.pc = "rmvol", !.i = 1]

Fail(c, step, idx, code) ==
  EnterCleanup([c EXCEPT !.failStep = step, !.failIdx = idx, !.code = code])

\* what the Create that made the group snapshot called n has returned, when
\* it succeeded
PriorOf(n) ==
  IF \E s \in ByName(n) : ToCSIOk(s)
    THEN ToCSI(CHOOSE s \in ByName(n) : ToCSIOk(s))
    ELSE NoResp

\* CreateEnter without the early return on a held key
CreateEnter_NoLock(p) ==
  /\ call[p].pc \in {"idle", "rejected"}
  /\ \E n \in Names, ids \in IdLists :
       /\ locks' = locks \cup {n}
       /\ Set(p, [NewCall("create", n, ids) EXCEPT
                    !.acquired = TRUE, !.prior = PriorOf(n),
                    !.pc = "resolve"])
  /\ UNCHANGED <<storage, faults, leaked, conv, util>>

\* CreateEnter with one lock for all names
CreateEnter_GlobalLock(p) ==
  /\ call[p].pc \in {"idle", "rejected"}
  /\ \E n \in Names, ids \in IdLists :
       IF locks = {}
         THEN /\ locks' = locks \cup {n}
              /\ Set(p, [NewCall("create", n, ids) EXCEPT
                           !.acquired = TRUE, !.prior = PriorOf(n),
                           !.pc = "resolve"])
         ELSE /\ locks' = locks
              /\ Set(p, Rejected("create", n))
  /\ UNCHANGED <<storage, faults, leaked, conv, util>>

CreateEnter(p) ==
  /\ call[p].pc \in {"idle", "rejected"}
  /\ \E n \in Names, ids \in IdLists :
       IF TryAcquire(n)
         THEN /\ locks' = locks \cup {n}
              /\ Set(p, [NewCall("create", n, ids) EXCEPT
                           !.acquired = TRUE, !.prior = PriorOf(n),
                           !.pc = "resolve"])
         ELSE /\ locks' = locks
              /\ Set(p, Rejected("create", n))
  /\ UNCHANGED <<storage, faults, leaked, conv, util>>

\* index of the first ID that does not resolve, 0 when all do
FirstBad(ids) ==
  IF \E j \in 1..Len(ids) : ids[j] \notin Vols
    THEN CHOOSE j \in 1..Len(ids) :
           /\ ids[j] \notin Vols
           /\ \A k \in 1..(j - 1) : ids[k] \in Vols
    ELSE 0

\* Resolve without the return inside the loop: the IDs after the one that
\* does not resolve are resolved too
Resolve_Continue(p) ==
  LET c == call[p]
      k == FirstBad(c.ids)
      d == [c EXCEPT !.ops = IF Len(c.ids) = 0 THEN @
                                               ELSE @ \cup {"GetVolumeByID"}]
  IN  /\ c.op = "create" /\ c.pc = "resolve"
      /\ IF k = 0
           THEN Set(p, [d EXCEPT !.volumes = c.ids, !.pc = "lookup"])
           ELSE Set(p, Fail([d EXCEPT !.volumes =
                               [j \in 1..Len(c.ids) |->
                                  IF c.ids[j] \in Vols THEN c.ids[j] ELSE Nil]],
                            "resolve", k, "InvalidArgument"))
      /\ UNCHANGED <<locks, storage, faults, leaked, conv, util>>

\* Resolve that looks the name up first and returns the group snapshot it
\* finds
Resolve_LookupFirst(p) ==
  LET c == call[p]
      k == FirstBad(c.ids)
      d == [c EXCEPT !.ops = IF Len(c.ids) = 0 THEN @
                                               ELSE @ \cup {"GetVolumeByID"}]
  IN  /\ c.op = "create" /\ c.pc = "resolve"
      /\ IF \E s \in ByName(c.name) : ToCSIOk(s)
           THEN Set(p, EnterCleanup(
                         [c EXCEPT !.ops = {"GetVolumeGroupSnapshotByName"},
                                   !.lookup = "found", !.code = "OK",
                                   !.resp = PriorOf(c.name)]))
           ELSE IF k = 0
             THEN Set(p, [d EXCEPT !.volumes = c.ids, !.pc = "lookup"])
             ELSE Set(p, Fail([d EXCEPT !.volumes =
                                 [j \in 1..Len(c.ids) |->
                                    IF j < k THEN c.ids[j] ELSE Nil]],
                              "resolve", k, "InvalidArgument"))
      /\ UNCHANGED <<locks, storage, faults, leaked, conv, util>>

\* the loop over GetVolumeByID; it reads nothing another handler writes
Resolve(p) ==
  LET c == call[p]
      k == FirstBad(c.ids)
      d == [c EXCEPT !.ops = IF Len(c.ids) = 0 THEN @
                                               ELSE @ \cup {"GetVolumeByID"}]
  IN  /\ c.op = "create" /\ c.pc = "resolve"
      /\ IF k = 0
           THEN Set(p, [d EXCEPT !.volumes = c.ids, !.pc = "lookup"])
           ELSE Set(p, Fail([d EXCEPT !.volumes =
                               [j \in 1..Len(c.ids) |->
                                  IF j < k THEN c.ids[j] ELSE Nil]],
                            "resolve", k, "InvalidArgument"))
      /\ UNCHANGED <<locks, storage, faults, leaked, conv, util>>

\* Lookup without the return of the group snapshot it found
Lookup_FoundGoesOn(p) ==
  LET c == call[p]
      d == [c EXCEPT !.ops = @ \cup {"GetVolumeGroupSnapshotByName"}]
  IN  /\ c.op = "create" /\ c.pc = "lookup"
      /\ \/ /\ Works
            /\ \E s \in ByName(c.name) :
                 IF ToCSIOk(s)
                   THEN Set(p, [d EXCEPT !.lookup = "found", !.pc = "prepare"])
                   ELSE Set(p, Fail([d EXCEPT !.lookup = "found"],
                                    "convert", 0, "Aborted"))
         \/ /\ Works
            /\ ByName(c.name) = {}
            /\ Set(p, [d EXCEPT !.lookup = "notfound", !.pc = "prepare"])
         \/ /\ Breaks
            /\ Set(p, [d EXCEPT !.lookup = "error", !.pc = "prepare"])
      /\ UNCHANGED <<locks, storage, leaked, conv, util>>

\* Lookup that returns Internal when the lookup fails
Lookup_ErrorAborts(p) ==
  LET c == call[p]
      d == [c EXCEPT !.ops = @ \cup {"GetVolumeGroupSnapshotByName"}]
  IN  /\ c.op = "create" /\ c.pc = "lookup"
      /\ \/ /\ Works
            /\ \E s \in ByName(c.name) :
                 IF ToCSIOk(s)
                   THEN Set(p, EnterCleanup([d EXCEPT !.lookup = "found",
                                                      !.code = "OK",
                                                      !.resp = ToCSI(s)]))
                   ELSE Set(p, Fail([d EXCEPT !.lookup = "found"],
                                    "convert", 0, "Aborted"))
         \/ /\ Works
            /\ ByName(c.name) = {}
            /\ Set(p, [d EXCEPT !.lookup = "notfound", !.pc = "prepare"])
         \/ /\ Breaks
            /\ Set(p, Fail([d EXCEPT !.lookup = "error"],
                             "lookup", 0, "Internal"))
      /\ UNCHANGED <<locks, storage, leaked, conv, util>>

Lookup(p) ==
  LET c == call[p]
      d == [c EXCEPT !.ops = @ \cup {"GetVolumeGroupSnapshotByName"}]
  IN  /\ c.op = "create" /\ c.pc = "lookup"
      /\ \/ /\ Works
            /\ \E s \in ByName(c.name) :
                 IF ToCSIOk(s)
                   THEN Set(p, EnterCleanup([d EXCEPT !.lookup = "found",
                                                      !.code = "OK",
                                                      !.resp = ToCSI(s)]))
                   ELSE Set(p, Fail([d EXCEPT !.lookup = "found"],
                                    "convert", 0, "Aborted"))
         \/ /\ Works
            /\ ByName(c.name) = {}
            /\ Set(p, [d EXCEPT !.lookup = "notfound", !.pc = "prepare"])
         \/ /\ Breaks
            /\ Set(p, [d EXCEPT !.lookup = "error", !.pc = "prepare"])
      /\ UNCHANGED <<locks, storage, leaked, conv, util>>

\* the errors of a run of the PrepareVolumeForSnapshot loop, in order
ErrsOf(r) ==
  LET F[j \in 0..Len(r)] ==
        IF j = 0 THEN <<>>
        ELSE IF r[j] = "ok" THEN F[j - 1] ELSE Append(F[j - 1], r[j])
  IN  F[Len(r)]

FirstErr(r) ==
  IF \E j \in 1..Len(r) : r[j] # "ok"
    THEN CHOOSE j \in 1..Len(r) :
           r[j] # "ok" /\ \A k \in 1..(j - 1) : r[k] = "ok"
    ELSE 0

\* Prepare with a loop that ends at the first error
Prepare_StopAtFirst(p) ==
  LET c == call[p]
      n == Len(c.ids)
  IN  /\ c.op = "create" /\ c.pc = "prepare"
      /\ \/ /\ Breaks
            /\ Set(p, Fail([c EXCEPT !.lookup = "none"], "creds", 0, "Internal"))
         \/ \E r \in [1..n -> {"ok"} \cup PrepCodes] :
              LET k == FirstErr(r)
                  d == [c EXCEPT !.creds = "live", !.lookup = "none",
                                 !.errList = IF k = 0 THEN <<>> ELSE <<r[k]>>,
                                 !.prepared = IF k = 0 THEN n ELSE k,
                                 !.ops = IF n = 0 THEN @
                                         ELSE @ \cup {"PrepareVolumeForSnapshot"}]
              IN  /\ \A j \in 1..n : j > k /\ k > 0 => r[j] = "ok"
                  /\ faults + Len(d.errList) <= MaxFaults
                  /\ faults' = faults + Len(d.errList)
                  /\ IF Len(d.errList) > 0
                       THEN Set(p, Fail(d, "prepare", k, d.errList[1]))
                       ELSE Set(p, [d EXCEPT !.pc = "mkgroup"])
      /\ UNCHANGED <<locks, storage, leaked, conv, util>>

\* NewUserCredentials, then the loop over PrepareVolumeForSnapshot; neither
\* touches anything another handler reads.  The result of the lookup is dead
\* from here on: groupSnapshot is nil and err is assigned anew.
Prepare(p) ==
  LET c == call[p]
      n == Len(c.ids)
  IN  /\ c.op = "create" /\ c.pc = "prepare"
      /\ \/ /\ Breaks
            /\ Set(p, Fail([c EXCEPT !.lookup = "none"], "creds", 0, "Internal"))
         \/ \E r \in [1..n -> {"ok"} \cup PrepCodes] :
              LET d == [c EXCEPT !.creds = "live", !.lookup = "none",
                                 !.errList = ErrsOf(r), !.prepared = n,
                                 !.ops = IF n = 0 THEN @
                                         ELSE @ \cup {"PrepareVolumeForSnapshot"}]
              IN  /\ faults + Len(d.errList) <= MaxFaults
                  /\ faults' = faults + Len(d.errList)
                  /\ IF Len(d.errList) > 0
                       THEN Set(p, Fail(d, "prepare", FirstErr(r), d.errList[1]))
                       ELSE Set(p, [d EXCEPT !.pc = "mkgroup"])
      /\ UNCHANGED <<locks, storage, leaked, conv, util>>

\* MkGroup that gives the group the name of the group snapshot
MkGroup_SameName(p) ==
  LET c == call[p]
      g == c.name
      d == [c EXCEPT !.ops = @ \cup {"CreateVolumeGroup"}]
  IN  /\ c.op = "create" /\ c.pc = "mkgroup"
      /\ \/ /\ Works
            /\ g \notin groups
            /\ groups' = groups \cup {g}
            /\ Set(p, [d EXCEPT !.vg = g, !.i = 1,
                                !.pc = IF Len(c.ids) = 0 THEN "snap" ELSE "add"])
         \/ /\ IF g \in groups THEN Works ELSE Breaks
            /\ groups' = groups
            /\ Set(p, Fail(d, "mkgroup", 0, "Internal"))
      /\ UNCHANGED <<locks, members, snaps, nextId, leaked, conv, util>>

\* MkGroup that returns the code of the steps after it
MkGroup_FailAborted(p) ==
  LET c == call[p]
      g == VgName(c.name)
      d == [c EXCEPT !.ops = @ \cup {"CreateVolumeGroup"}]
  IN  /\ c.op = "create" /\ c.pc = "mkgroup"
      /\ \/ /\ Works
            /\ g \notin groups
            /\ groups' = groups \cup {g}
            /\ Set(p, [d EXCEPT !.vg = g, !.i = 1,
                                !.pc = IF Len(c.ids) = 0 THEN "snap" ELSE "add"])
         \/ /\ IF g \in groups THEN Works ELSE Breaks
            /\ groups' = groups
            /\ Set(p, Fail(d, "mkgroup", 0, "Aborted"))
      /\ UNCHANGED <<locks, members, snaps, nextId, leaked, conv, util>>

\* MkGroup that gives the group of every request the same name
MkGroup_SharedName(p) ==
  LET c == call[p]
      g == "tmp-vg"
      d == [c EXCEPT !.ops = @ \cup {"CreateVolumeGroup"}]
  IN  /\ c.op = "create" /\ c.pc = "mkgroup"
      /\ \/ /\ Works
            /\ g \notin groups
            /\ groups' = groups \cup {g}
            /\ Set(p, [d EXCEPT !.vg = g, !.i = 1,
                                !.pc = IF Len(c.ids) = 0 THEN "snap" ELSE "add"])
         \/ /\ IF g \in groups THEN Works ELSE Breaks
            /\ groups' = groups
            /\ Set(p, Fail(d, "mkgroup", 0, "Internal"))
      /\ UNCHANGED <<locks, members, snaps, nextId, leaked, conv, util>>

\* MkGroup that takes over the group of its name when it is there already
MkGroup_AdoptExisting(p) ==
  LET c == call[p]
      g == VgName(c.name)
      d == [c EXCEPT !.ops = @ \cup {"CreateVolumeGroup"}]
  IN  /\ c.op = "create" /\ c.pc = "mkgroup"
      /\ \/ /\ Works
            /\ groups' = groups \cup {g}
            /\ Set(p, [d EXCEPT !.vg = g, !.i = 1,
                                !.pc = IF Len(c.ids) = 0 THEN "snap" ELSE "add"])
         \/ /\ Breaks
            /\ groups' = groups
            /\ Set(p, Fail(d, "mkgroup", 0, "Internal"))
      /\ UNCHANGED <<locks, members, snaps, nextId, leaked, conv, util>>

MkGroup(p) ==
  LET c == call[p]
      g == VgName(c.name)
      d == [c EXCEPT !.ops = @ \cup {"CreateVolumeGroup"}]
  IN  /\ c.op = "create" /\ c.pc = "mkgroup"
      /\ \/ /\ Works
            /\ g \notin groups
            /\ groups' = groups \cup {g}
            /\ Set(p, [d EXCEPT !.vg = g, !.i = 1,
                                !.pc = IF Len(c.ids) = 0 THEN "snap" ELSE "add"])
         \/ /\ IF g \in groups THEN Works ELSE Breaks
            /\ groups' = groups
            /\ Set(p, Fail(d, "mkgroup", 0, "Internal"))
      /\ UNCHANGED <<locks, members, snaps, nextId, leaked, conv, util>>

\* AddVol without the return on an error: the loop goes on
AddVol_ContinueOnError(p) ==
  LET c == call[p]
      v == c.volumes[c.i]
      d == [c EXCEPT !.ops = @ \cup {"AddVolume"},
                     !.i = IF c.i = Len(c.ids) THEN 1 ELSE c.i + 1,
                     !.pc = IF c.i = Len(c.ids) THEN "snap" ELSE "add"]
  IN  /\ c.op = "create" /\ c.pc = "add"
      /\ \/ /\ Works
            /\ ~InOtherGroup(c.vg, v)
            /\ members' = members \cup {<<c.vg, v>>}
            /\ Set(p, [d EXCEPT !.added = @ \cup {v}])
         \/ /\ IF InOtherGroup(c.vg, v) THEN Works ELSE Breaks
            /\ members' = members
            /\ Set(p, [d EXCEPT !.failStep = "add", !.failIdx = c.i,
                                !.code = "Aborted"])
      /\ UNCHANGED <<locks, groups, snaps, nextId, leaked, conv, util>>

\* AddVol with a loop that ends after the first volume
AddVol_BreakAfterFirst(p) ==
  LET c == call[p]
      v == c.volumes[c.i]
      d == [c EXCEPT !.ops = @ \cup {"AddVolume"}]
  IN  /\ c.op = "create" /\ c.pc = "add"
      /\ \/ /\ Works
            /\ ~InOtherGroup(c.vg, v)
            /\ members' = members \cup {<<c.vg, v>>}
            /\ Set(p, [d EXCEPT !.added = @ \cup {v}, !.i = 1, !.pc = "snap"])
         \/ /\ IF InOtherGroup(c.vg, v) THEN Works ELSE Breaks
            /\ members' = members
            /\ Set(p, Fail(d, "add", c.i, "Aborted"))
      /\ UNCHANGED <<locks, groups, snaps, nextId, leaked, conv, util>>

\* AddVol that returns the code of the CreateVolumeGroup step
AddVol_WrongCode(p) ==
  LET c == call[p]
      v == c.volumes[c.i]
      d == [c EXCEPT !.ops = @ \cup {"AddVolume"}]
  IN  /\ c.op = "create" /\ c.pc = "add"
      /\ \/ /\ Works
            /\ ~InOtherGroup(c.vg, v)
            /\ members' = members \cup {<<c.vg, v>>}
            /\ Set(p, [d EXCEPT !.added = @ \cup {v},
                                !.i = IF c.i = Len(c.ids) THEN 1 ELSE c.i + 1,
                                !.pc = IF c.i = Len(c.ids) THEN "snap" ELSE "add"])
         \/ /\ IF InOtherGroup(c.vg, v) THEN Works ELSE Breaks
            /\ members' = members
            /\ Set(p, Fail(d, "add", c.i, "Internal"))
      /\ UNCHANGED <<locks, groups, snaps, nextId, leaked, conv, util>>

AddVol(p) ==
  LET c == call[p]
      v == c.volumes[c.i]
      d == [c EXCEPT !.ops = @ \cup {"AddVolume"}]
  IN  /\ c.op = "create" /\ c.pc = "add"
      /\ \/ /\ Works
            /\ ~InOtherGroup(c.vg, v)
            /\ members' = members \cup {<<c.vg, v>>}
            /\ Set(p, [d EXCEPT !.added = @ \cup {v},
                                !.i = IF c.i = Len(c.ids) THEN 1 ELSE c.i + 1,
                                !.pc = IF c.i = Len(c.ids) THEN "snap" ELSE "add"])
         \/ /\ IF InOtherGroup(c.vg, v) THEN Works ELSE Breaks
            /\ members' = members
            /\ Set(p, Fail(d, "add", c.i, "Aborted"))
      /\ UNCHANGED <<locks, groups, snaps, nextId, leaked, conv, util>>

\* Snap that calls CreateVolumeGroupSnapshot again when it failed
Snap_RetryOnFailure(p) ==
  LET c == call[p]
      d == [c EXCEPT !.ops = @ \cup {"CreateVolumeGroupSnapshot"}]
  IN  /\ c.op = "create" /\ c.pc = "snap"
      /\ \/ /\ ByName(c.name) = {}
            /\ nextId <= MaxIDs
            /\ \E ok \in BOOLEAN :
                 LET s == [name |-> c.name, id |-> IdOf(nextId),
                           members |-> MembersOf(c.vg),
                           want |-> c.ids, ok |-> ok]
                 IN  /\ IF ok THEN Works ELSE Breaks
                     /\ snaps' = snaps \cup {s}
                     /\ nextId' = nextId + 1
                     /\ IF ToCSIOk(s)
                          THEN Set(p, EnterCleanup([d EXCEPT !.code = "OK",
                                                             !.resp = ToCSI(s)]))
                          ELSE Set(p, Fail(d, "convert", 0, "Aborted"))
         \/ /\ IF ByName(c.name) = {} /\ nextId <= MaxIDs THEN Breaks ELSE Works
            /\ UNCHANGED <<snaps, nextId>>
            /\ Set(p, d)
      /\ UNCHANGED <<locks, groups, members, leaked, conv, util>>

\* CreateVolumeGroupSnapshot and the ToCSI of its result
\* Snap that deletes the group snapshot again when its conversion fails
Snap_RollbackOnConvert(p) ==
  LET c == call[p]
      d == [c EXCEPT !.ops = @ \cup {"CreateVolumeGroupSnapshot"}]
  IN  /\ c.op = "create" /\ c.pc = "snap"
      /\ \/ /\ ByName(c.name) = {}
            /\ nextId <= MaxIDs
            /\ \E ok \in BOOLEAN :
                 LET s == [name |-> c.name, id |-> IdOf(nextId),
                           members |-> MembersOf(c.vg),
                           want |-> c.ids, ok |-> ok]
                 IN  /\ IF ok THEN Works ELSE Breaks
                     /\ snaps' = IF ok THEN snaps \cup {s} ELSE snaps
                     /\ nextId' = nextId + 1
                     /\ IF ToCSIOk(s)
                          THEN Set(p, EnterCleanup([d EXCEPT !.code = "OK",
                                                             !.resp = ToCSI(s)]))
                          ELSE Set(p, Fail(d, "convert", 0, "Aborted"))
         \/ /\ IF ByName(c.name) = {} /\ nextId <= MaxIDs THEN Breaks ELSE Works
            /\ UNCHANGED <<snaps, nextId>>
            /\ Set(p, Fail(d, "snap", 0, "Aborted"))
      /\ UNCHANGED <<locks, groups, members, leaked, conv, util>>

Snap(p) ==
  LET c == call[p]
      d == [c EXCEPT !.ops = @ \cup {"CreateVolumeGroupSnapshot"}]
  IN  /\ c.op = "create" /\ c.pc = "snap"
      /\ \/ /\ ByName(c.name) = {}
            /\ nextId <= MaxIDs
            /\ \E ok \in BOOLEAN :
                 LET s == [name |-> c.name, id |-> IdOf(nextId),
                           members |-> MembersOf(c.vg),
                           want |-> c.ids, ok |-> ok]
                 IN  /\ IF ok THEN Works ELSE Breaks
                     /\ snaps' = snaps \cup {s}
                     /\ nextId' = nextId + 1
                     /\ IF ToCSIOk(s)
                          THEN Set(p, EnterCleanup([d EXCEPT !.code = "OK",
                                                             !.resp = ToCSI(s)]))
                          ELSE Set(p, Fail(d, "convert", 0, "Aborted"))
         \/ /\ IF ByName(c.name) = {} /\ nextId <= MaxIDs THEN Breaks ELSE Works
            /\ UNCHANGED <<snaps, nextId>>
            /\ Set(p, Fail(d, "snap", 0, "Aborted"))
      /\ UNCHANGED <<locks, groups, members, leaked, conv, util>>

\* RemoveVol of a cleanup that frees the volumes and removes none
RemoveVol_Skip(p) ==
  LET c == call[p]
      d == [c EXCEPT !.destroyed = @ \cup {c.i},
                     !.i = IF c.i = Len(c.ids) THEN 1 ELSE c.i + 1,
                     !.pc = IF c.i = Len(c.ids) THEN "delgroup" ELSE "rmvol"]
  IN  /\ c.op = "create" /\ c.pc = "rmvol"
      /\ Works
      /\ Set(p, d)
      /\ UNCHANGED <<locks, storage, leaked, conv, util>>

\* RemoveVol of a cleanup that runs after the Release
RemoveVol_ReleaseFirst(p) ==
  LET c == call[p]
      v == c.volumes[c.i]
      d == [c EXCEPT !.ops = @ \cup {"RemoveVolume"},
                     !.rmCalled = @ \cup {v},
                     !.destroyed = @ \cup {c.i},
                     !.i = IF c.i = Len(c.ids) THEN 1 ELSE c.i + 1,
                     !.pc = IF c.i = Len(c.ids) THEN "delgroup" ELSE "rmvol"]
  IN  /\ c.op = "create" /\ c.pc = "rmvol"
      /\ locks' = locks \ {c.name}
      /\ \/ /\ Works
            /\ members' = members \ {<<c.vg, v>>}
            /\ Set(p, [d EXCEPT !.removed = IF <<c.vg, v>> \in members
                                              THEN @ \cup {v} ELSE @])
         \/ /\ Breaks
            /\ members' = members
            /\ Set(p, [d EXCEPT !.rmFailed = TRUE])
      /\ UNCHANGED <<groups, snaps, nextId, leaked, conv, util>>

\* RemoveVol of a cleanup that calls RemoveVolume for the added volumes only
RemoveVol_OnlyAdded(p) ==
  LET c == call[p]
      v == c.volumes[c.i]
      e == [c EXCEPT !.destroyed = @ \cup {c.i},
                     !.i = IF c.i = Len(c.ids) THEN 1 ELSE c.i + 1,
                     !.pc = IF c.i = Len(c.ids) THEN "delgroup" ELSE "rmvol"]
      d == [e EXCEPT !.ops = @ \cup {"RemoveVolume"},
                     !.rmCalled = @ \cup {v}]
  IN  /\ c.op = "create" /\ c.pc = "rmvol"
      /\ IF v \in c.added
           THEN \/ /\ Works
                   /\ members' = members \ {<<c.vg, v>>}
                   /\ Set(p, [d EXCEPT !.removed = IF <<c.vg, v>> \in members
                                                     THEN @ \cup {v} ELSE @])
                \/ /\ Breaks
                   /\ members' = members
                   /\ Set(p, [d EXCEPT !.rmFailed = TRUE])
           ELSE /\ Works
                /\ members' = members
                /\ Set(p, e)
      /\ UNCHANGED <<locks, groups, snaps, nextId, leaked, conv, util>>

\* RemoveVol whose RemoveVolume takes the volume out of whatever group it
\* is in
RemoveVol_AnyGroup(p) ==
  LET c == call[p]
      v == c.volumes[c.i]
      d == [c EXCEPT !.ops = @ \cup {"RemoveVolume"},
                     !.rmCalled = @ \cup {v},
                     !.destroyed = @ \cup {c.i},
                     !.i = IF c.i = Len(c.ids) THEN 1 ELSE c.i + 1,
                     !.pc = IF c.i = Len(c.ids) THEN "delgroup" ELSE "rmvol"]
  IN  /\ c.op = "create" /\ c.pc = "rmvol"
      /\ \/ /\ Works
            /\ members' = {m \in members : m[2] # v}
            /\ Set(p, [d EXCEPT !.removed = IF <<c.vg, v>> \in members
                                              THEN @ \cup {v} ELSE @])
         \/ /\ Breaks
            /\ members' = members
            /\ Set(p, [d EXCEPT !.rmFailed = TRUE])
      /\ UNCHANGED <<locks, groups, snaps, nextId, leaked, conv, util>>

RemoveVol(p) ==
  LET c == call[p]
      v == c.volumes[c.i]
      d == [c EXCEPT !.ops = @ \cup {"RemoveVolume"},
                     !.rmCalled = @ \cup {v},
                     !.destroyed = @ \cup {c.i},
                     !.i = IF c.i = Len(c.ids) THEN 1 ELSE c.i + 1,
                     !.pc = IF c.i = Len(c.ids) THEN "delgroup" ELSE "rmvol"]
  IN  /\ c.op = "create" /\ c.pc = "rmvol"
      /\ \/ /\ Works
            /\ members' = members \ {<<c.vg, v>>}
            /\ Set(p, [d EXCEPT !.removed = IF <<c.vg, v>> \in members
                                              THEN @ \cup {v} ELSE @])
         \/ /\ Breaks
            /\ members' = members
            /\ Set(p, [d EXCEPT !.rmFailed = TRUE])
      /\ UNCHANGED <<locks, groups, snaps, nextId, leaked, conv, util>>

\* DelGroup of a cleanup that frees the group and does not delete it
DelGroup_Skip(p) ==
  LET c == call[p]
  IN  /\ c.op = "create" /\ c.pc = "delgroup"
      /\ Works
      /\ Set(p, [c EXCEPT !.pc = "release"])
      /\ UNCHANGED <<locks, storage, leaked, conv, util>>

\* DelGroup that returns the error of the Delete to the caller
DelGroup_Escalate(p) ==
  LET c == call[p]
      d == [c EXCEPT !.ops = @ \cup {"DeleteVolumeGroup"}, !.pc = "release"]
  IN  /\ c.op = "create" /\ c.pc = "delgroup"
      /\ \/ /\ Works
            /\ groups' = groups \ {c.vg}
            /\ members' = {m \in members : m[1] # c.vg}
            /\ leaked' = leaked
            /\ Set(p, d)
         \/ /\ Breaks
            /\ UNCHANGED <<groups, members>>
            /\ leaked' = leaked \cup {c.vg}
            /\ Set(p, [d EXCEPT !.delFailed = TRUE, !.code = "Internal",
                                !.resp = NoResp])
      /\ UNCHANGED <<locks, snaps, nextId, conv, util>>

DelGroup(p) ==
  LET c == call[p]
      d == [c EXCEPT !.ops = @ \cup {"DeleteVolumeGroup"}, !.pc = "release"]
  IN  /\ c.op = "create" /\ c.pc = "delgroup"
      /\ \/ /\ Works
            /\ groups' = groups \ {c.vg}
            /\ members' = {m \in members : m[1] # c.vg}
            /\ leaked' = leaked
            /\ Set(p, d)
         \/ /\ Breaks
            /\ UNCHANGED <<groups, members>>
            /\ leaked' = leaked \cup {c.vg}
            /\ Set(p, [d EXCEPT !.delFailed = TRUE])
      /\ UNCHANGED <<locks, snaps, nextId, conv, util>>

\* CreateReturn without the deferred Release
CreateReturn_NoRelease(p) ==
  LET c == call[p]
  IN  /\ c.op = "create" /\ c.pc = "release"
      /\ Set(p, IdleCall)
      /\ UNCHANGED <<locks, storage, faults, leaked, conv, util>>

\* the deferred Release, and the return to the caller
CreateReturn(p) ==
  LET c == call[p]
  IN  /\ c.op = "create" /\ c.pc = "release"
      /\ locks' = locks \ {c.name}
      /\ Set(p, IdleCall)
      /\ UNCHANGED <<storage, faults, leaked, conv, util>>

(* ----------------------- DeleteVolumeGroupSnapshot -------------------- *)
\* DeleteEnter without the early return on a held key
DeleteEnter_NoLock(p) ==
  /\ call[p].pc \in {"idle", "rejected"}
  /\ \E id \in SnapIDs :
       /\ locks' = locks \cup {id}
       /\ Set(p, [NewCall("delete", id, <<>>) EXCEPT
                    !.acquired = TRUE, !.pc = "dlookup"])
  /\ UNCHANGED <<storage, faults, leaked, conv, util>>

\* DeleteEnter that releases the key also when it did not acquire it
DeleteEnter_ReleaseOnReject(p) ==
  /\ call[p].pc \in {"idle", "rejected"}
  /\ \E id \in SnapIDs :
       IF TryAcquire(id)
         THEN /\ locks' = locks \cup {id}
              /\ Set(p, [NewCall("delete", id, <<>>) EXCEPT
                           !.acquired = TRUE, !.pc = "dlookup"])
         ELSE /\ locks' = locks \ {id}
              /\ Set(p, Rejected("delete", id))
  /\ UNCHANGED <<storage, faults, leaked, conv, util>>

DeleteEnter(p) ==
  /\ call[p].pc \in {"idle", "rejected"}
  /\ \E id \in SnapIDs :
       IF TryAcquire(id)
         THEN /\ locks' = locks \cup {id}
              /\ Set(p, [NewCall("delete", id, <<>>) EXCEPT
                           !.acquired = TRUE, !.pc = "dlookup"])
         ELSE /\ locks' = locks
              /\ Set(p, Rejected("delete", id))
  /\ UNCHANGED <<storage, faults, leaked, conv, util>>

\* DeleteLookup that treats not-found like any other error
DeleteLookup_NotFoundIsError(p) ==
  LET c == call[p]
      d == [c EXCEPT !.ops = @ \cup {"GetVolumeGroupSnapshotByID"}]
  IN  /\ c.op = "delete" /\ c.pc = "dlookup"
      /\ \/ /\ Works
            /\ ByID(c.name) # {}
            /\ Set(p, [d EXCEPT !.lookup = "found", !.pc = "ddelete"])
         \/ /\ Works
            /\ ByID(c.name) = {}
            /\ Set(p, [d EXCEPT !.lookup = "notfound", !.code = "Internal",
                                !.failStep = "lookup", !.pc = "release"])
         \/ /\ Breaks
            /\ Set(p, [d EXCEPT !.lookup = "error", !.code = "Internal",
                             !.failStep = "lookup", !.pc = "release"])
      /\ UNCHANGED <<locks, storage, leaked, conv, util>>

DeleteLookup(p) ==
  LET c == call[p]
      d == [c EXCEPT !.ops = @ \cup {"GetVolumeGroupSnapshotByID"}]
  IN  /\ c.op = "delete" /\ c.pc = "dlookup"
      /\ \/ /\ Works
            /\ ByID(c.name) # {}
            /\ Set(p, [d EXCEPT !.lookup = "found", !.pc = "ddelete"])
         \/ /\ Works
            /\ ByID(c.name) = {}
            /\ Set(p, [d EXCEPT !.lookup = "notfound", !.code = "OK",
                                !.pc = "release"])
         \/ /\ Breaks
            /\ Set(p, [d EXCEPT !.lookup = "error", !.code = "Internal",
                             !.failStep = "lookup", !.pc = "release"])
      /\ UNCHANGED <<locks, storage, leaked, conv, util>>

\* DeleteSnap whose delete reports success and removes nothing
DeleteSnap_KeepsSnapshot(p) ==
  LET c == call[p]
      d == [c EXCEPT !.ops = @ \cup {"DeleteVolumeGroupSnapshot"},
                     !.pc = "release"]
  IN  /\ c.op = "delete" /\ c.pc = "ddelete"
      /\ \/ /\ Works
            /\ snaps' = snaps
            /\ Set(p, [d EXCEPT !.code = "OK"])
         \/ /\ Breaks
            /\ snaps' = snaps
            /\ Set(p, [d EXCEPT !.code = "Internal", !.failStep = "delete"])
      /\ UNCHANGED <<locks, groups, members, nextId, leaked, conv, util>>

DeleteSnap(p) ==
  LET c == call[p]
      d == [c EXCEPT !.ops = @ \cup {"DeleteVolumeGroupSnapshot"},
                     !.pc = "release"]
  IN  /\ c.op = "delete" /\ c.pc = "ddelete"
      /\ \/ /\ Works
            /\ snaps' = snaps \ ByID(c.name)
            /\ Set(p, [d EXCEPT !.code = "OK"])
         \/ /\ Breaks
            /\ snaps' = snaps
            /\ Set(p, [d EXCEPT !.code = "Internal", !.failStep = "delete"])
      /\ UNCHANGED <<locks, groups, members, nextId, leaked, conv, util>>

DeleteReturn(p) ==
  LET c == call[p]
  IN  /\ c.op = "delete" /\ c.pc = "release"
      /\ locks' = locks \ {c.name}
      /\ Set(p, IdleCall)
      /\ UNCHANGED <<storage, faults, leaked, conv, util>>

(* ------------------------ GetVolumeGroupSnapshot ---------------------- *)
\* GetEnter without the early return on a held key
GetEnter_NoLock(p) ==
  /\ call[p].pc \in {"idle", "rejected"}
  /\ \E id \in SnapIDs :
       /\ locks' = locks \cup {id}
       /\ Set(p, [NewCall("get", id, <<>>) EXCEPT
                    !.acquired = TRUE, !.pc = "glookup"])
  /\ UNCHANGED <<storage, faults, leaked, conv, util>>

GetEnter(p) ==
  /\ call[p].pc \in {"idle", "rejected"}
  /\ \E id \in SnapIDs :
       IF TryAcquire(id)
         THEN /\ locks' = locks \cup {id}
              /\ Set(p, [NewCall("get", id, <<>>) EXCEPT
                           !.acquired = TRUE, !.pc = "glookup"])
         ELSE /\ locks' = locks
              /\ Set(p, Rejected("get", id))
  /\ UNCHANGED <<storage, faults, leaked, conv, util>>

\* GetLookup that treats not-found like any other error
GetLookup_NotFoundInternal(p) ==
  LET c == call[p]
      d == [c EXCEPT !.ops = @ \cup {"GetVolumeGroupSnapshotByID"},
                     !.pc = "release"]
  IN  /\ c.op = "get" /\ c.pc = "glookup"
      /\ \/ /\ Works
            /\ \E s \in ByID(c.name) :
                 IF ToCSIOk(s)
                   THEN Set(p, [d EXCEPT !.lookup = "found", !.code = "OK",
                                         !.resp = ToCSI(s)])
                   ELSE Set(p, [d EXCEPT !.lookup = "found", !.code = "Aborted",
                                         !.failStep = "convert"])
         \/ /\ Works
            /\ ByID(c.name) = {}
            /\ Set(p, [d EXCEPT !.lookup = "notfound", !.code = "Internal",
                                !.failStep = "lookup"])
         \/ /\ Breaks
            /\ Set(p, [d EXCEPT !.lookup = "error", !.code = "Internal",
                                !.failStep = "lookup"])
      /\ UNCHANGED <<locks, storage, leaked, conv, util>>

\* GetVolumeGroupSnapshotByID and the ToCSI of its result
\* GetLookup that returns Internal when the conversion fails
GetLookup_ConvertInternal(p) ==
  LET c == call[p]
      d == [c EXCEPT !.ops = @ \cup {"GetVolumeGroupSnapshotByID"},
                     !.pc = "release"]
  IN  /\ c.op = "get" /\ c.pc = "glookup"
      /\ \/ /\ Works
            /\ \E s \in ByID(c.name) :
                 IF ToCSIOk(s)
                   THEN Set(p, [d EXCEPT !.lookup = "found", !.code = "OK",
                                         !.resp = ToCSI(s)])
                   ELSE Set(p, [d EXCEPT !.lookup = "found", !.code = "Internal",
                                         !.failStep = "convert"])
         \/ /\ Works
            /\ ByID(c.name) = {}
            /\ Set(p, [d EXCEPT !.lookup = "notfound", !.code = "NotFound",
                                !.failStep = "lookup"])
         \/ /\ Breaks
            /\ Set(p, [d EXCEPT !.lookup = "error", !.code = "Internal",
                                !.failStep = "lookup"])
      /\ UNCHANGED <<locks, storage, leaked, conv, util>>

GetLookup(p) ==
  LET c == call[p]
      d == [c EXCEPT !.ops = @ \cup {"GetVolumeGroupSnapshotByID"},
                     !.pc = "release"]
  IN  /\ c.op = "get" /\ c.pc = "glookup"
      /\ \/ /\ Works
            /\ \E s \in ByID(c.name) :
                 IF ToCSIOk(s)
                   THEN Set(p, [d EXCEPT !.lookup = "found", !.code = "OK",
                                         !.resp = ToCSI(s)])
                   ELSE Set(p, [d EXCEPT !.lookup = "found", !.code = "Aborted",
                                         !.failStep = "convert"])
         \/ /\ Works
            /\ ByID(c.name) = {}
            /\ Set(p, [d EXCEPT !.lookup = "notfound", !.code = "NotFound",
                                !.failStep = "lookup"])
         \/ /\ Breaks
            /\ Set(p, [d EXCEPT !.lookup = "error", !.code = "Internal",
                                !.failStep = "lookup"])
      /\ UNCHANGED <<locks, storage, leaked, conv, util>>

GetReturn(p) ==
  LET c == call[p]
  IN  /\ c.op = "get" /\ c.pc = "release"
      /\ locks' = locks \ {c.name}
      /\ Set(p, IdleCall)
      /\ UNCHANGED <<storage, faults, leaked, conv, util>>

Step(p) ==
  \/ CreateEnter(p) \/ Resolve(p) \/ Lookup(p) \/ Prepare(p)
  \/ MkGroup(p) \/ AddVol(p) \/ Snap(p) \/ RemoveVol(p) \/ DelGroup(p)
  \/ CreateReturn(p)
  \/ DeleteEnter(p) \/ DeleteLookup(p) \/ DeleteSnap(p) \/ DeleteReturn(p)
  \/ GetEnter(p) \/ GetLookup(p) \/ GetReturn(p)

Next == \E p \in Procs : Step(p)

Spec == Init /\ [][Next]_vars

\* every handler that is in a call keeps taking steps: a call into the
\* cluster returns
Run(p) ==
  \/ Resolve(p) \/ Lookup(p) \/ Prepare(p) \/ MkGroup(p) \/ AddVol(p)
  \/ Snap(p) \/ RemoveVol(p) \/ DelGroup(p) \/ CreateReturn(p)
  \/ DeleteLookup(p) \/ DeleteSnap(p) \/ DeleteReturn(p)
  \/ GetLookup(p) \/ GetReturn(p)

FairSpec == Spec /\ \A p \in Procs : WF_vars(Run(p))

(* -------------------------------- ToCSI -------------------------------- *)
\* a field that is not set: the empty string, a nil time
Unset == ""

\* the rbdVolume, rbdSnapshot and group snapshot objects handed to ToCSI:
\* each required field is set or not
VolumeInputs ==
  [VolID : {Unset, "0001-unique-volume-id"}, Pool : {Unset, "ecpool"},
   JournalPool : {Unset, "replicapool"},
   RbdImageName : {Unset, "csi-vol-01234"}]

SnapshotInputs ==
  [VolID : {Unset, "0001-unique-snapshot-id"}, SourceVolumeID : {Unset, "v1"},
   CreatedAt : {Unset, "now"}]

\* a group snapshot with or without its ID, of no snapshot or of one
\* snapshot with or without its source volume ID
GroupSnapshotInputs ==
  [id : {Unset, IdOf(1)},
   snapshots : {<<>>} \cup {<<s>> : s \in {x \in SnapshotInputs :
                                             /\ x.VolID # Unset
                                             /\ x.CreatedAt # Unset}}]

\* what ToCSI returns when a required field is not set
ConvError == [error |-> "missing field"]
Failed(r) == "error" \in DOMAIN r

VolumeToCSI(rv) ==
  IF \/ rv.VolID = Unset \/ rv.Pool = Unset
     \/ rv.JournalPool = Unset \/ rv.RbdImageName = Unset
    THEN ConvError
    ELSE [VolumeId |-> rv.VolID,
          VolumeContext |-> [pool |-> rv.Pool, journalPool |-> rv.JournalPool,
                             imageName |-> rv.RbdImageName]]

SnapshotToCSI(rs) ==
  IF rs.VolID = Unset \/ rs.SourceVolumeID = Unset \/ rs.CreatedAt = Unset
    THEN ConvError
    ELSE [SnapshotId |-> rs.VolID, SourceVolumeId |-> rs.SourceVolumeID,
          CreationTime |-> rs.CreatedAt, ReadyToUse |-> TRUE]

\* ToCSI of a group snapshot converts every snapshot of the group
GroupSnapshotToCSI(g) ==
  IF \/ g.id = Unset
     \/ \E j \in 1..Len(g.snapshots) : Failed(SnapshotToCSI(g.snapshots[j]))
    THEN ConvError
    ELSE [GroupSnapshotId |-> g.id,
          Snapshots |-> [j \in 1..Len(g.snapshots) |->
                           SnapshotToCSI(g.snapshots[j])],
          ReadyToUse |-> TRUE]

NoObj == [none |-> TRUE]
Pending(kind, x) == [kind |-> kind, in |-> x, out |-> NoObj, done |-> FALSE]

\* an object with any of its fields unset, and a cluster with nothing in it
ConvInit ==
  /\ locks = {} /\ groups = {} /\ members = {} /\ snaps = {} /\ nextId = 1
  /\ call = [p \in Procs |-> IdleCall]
  /\ faults = 0
  /\ leaked = {}
  /\ util = NoUtil
  /\ conv \in {Pending("volume", x) : x \in VolumeInputs}
            \cup {Pending("snapshot", x) : x \in SnapshotInputs}
            \cup {Pending("group", x) : x \in GroupSnapshotInputs}

\* ToCSI of the object
Convert ==
  /\ conv.kind \in {"volume", "snapshot", "group"} /\ ~conv.done
  /\ conv' = [conv EXCEPT
                !.done = TRUE,
                !.out = IF conv.kind = "volume" THEN VolumeToCSI(conv.in)
                        ELSE IF conv.kind = "snapshot"
                          THEN SnapshotToCSI(conv.in)
                        ELSE GroupSnapshotToCSI(conv.in)]
  /\ UNCHANGED <<locks, storage, call, faults, leaked, util>>

\* the group snapshot is in the cluster before any request: a
\* pre-provisioned group snapshot, named "s", under the first ID
Register ==
  /\ conv.kind = "group" /\ conv.done
  /\ snaps' = {[name |-> "s", id |-> IdOf(nextId),
                members |-> {conv.in.snapshots[j].SourceVolumeID :
                               j \in 1..Len(conv.in.snapshots)},
                want |-> [j \in 1..Len(conv.in.snapshots) |->
                            conv.in.snapshots[j].SourceVolumeID],
                ok |-> ~Failed(conv.out)]}
  /\ nextId' = nextId + 1
  /\ conv' = [conv EXCEPT !.kind = "registered"]
  /\ UNCHANGED <<locks, groups, members, call, faults, leaked, util>>

\* the requests are served once the group snapshot is in the cluster
Serve == conv.kind = "registered" /\ Next

ConvNext == Convert \/ Register \/ Serve

ConvSpec == ConvInit /\ [][ConvNext]_vars

(* -------------------------------- SetQOS ------------------------------- *)
\* bits of an integer of the volume, int64 in the code
IntBits == 6
MinInt == -(2 ^ (IntBits - 1))
MaxInt == 2 ^ (IntBits - 1) - 1
\* the bytes of a GiB, on the scale of IntBits: 2^30 of 2^63
oneGB == 2 ^ (IntBits - 4)

\* the result of an operation on integers of IntBits bits
Wrap(x) == ((x - MinInt) % (2 ^ IntBits)) + MinInt
\* the quotient of two integers, truncated toward zero; b is positive
Quo(a, b) == IF a >= 0 THEN a \div b ELSE -((-a) \div b)

\* a string is the sequence of its characters
Digits == {ToString(d) : d \in 0..9}
DigitOf(c) == CHOOSE d \in 0..9 : ToString(d) = c

\* strconv.ParseInt(s, 10, 64): an optional sign and decimal digits, of a
\* value within the integers of the width
ParseInt(s) ==
  LET signed == Len(s) > 0 /\ s[1] \in {"+", "-"}
      body == IF signed THEN Tail(s) ELSE s
      V[j \in 0..Len(body)] ==
        IF j = 0 THEN 0 ELSE V[j - 1] * 10 + DigitOf(body[j])
  IN  IF Len(body) = 0 \/ \E j \in 1..Len(body) : body[j] \notin Digits
        THEN [ok |-> FALSE, val |-> 0]
        ELSE LET v == IF s[1] = "-" THEN -V[Len(body)] ELSE V[Len(body)]
             IN  IF v < MinInt \/ v > MaxInt
                   THEN [ok |-> FALSE, val |-> 0]
                   ELSE [ok |-> TRUE, val |-> v]

RECURSIVE DigitsOf(_)
DigitsOf(n) ==
  IF n < 10 THEN <<ToString(n)>>
  ELSE Append(DigitsOf(n \div 10), ToString(n % 10))

\* strconv.FormatInt(v, 10)
FormatInt(v) == IF v < 0 THEN <<"-">> \o DigitsOf(-v) ELSE DigitsOf(v)

\* the QoS parameters of the StorageClass: two of the four base parameters,
\* their per-GiB parameters and the base volume size
baseReadIops == "BaseReadIops"
baseWriteIops == "BaseWriteIops"
readIopsPerGiB == "ReadIopsPerGiB"
writeIopsPerGiB == "WriteIopsPerGiB"
baseVolSizeBytes == "BaseVolSizeBytes"
readIopsLimit == "rbd_qos_read_iops_limit"
writeIopsLimit == "rbd_qos_write_iops_limit"

QosBaseKeys == {baseReadIops, baseWriteIops}
LimitTypeOf(k) == IF k = baseReadIops THEN readIopsLimit ELSE writeIopsLimit
PerGiBTypeOf(k) == IF k = baseReadIops THEN readIopsPerGiB ELSE writeIopsPerGiB

\* v, ok := m[k]; ok && v != ""
Has(m, k) == k \in DOMAIN m /\ m[k] # <<>>

parseQosParams(scParams) ==
  [k \in QosBaseKeys |->
     [baseLimitType |-> LimitTypeOf(k),
      baseLimit |-> IF Has(scParams, k) THEN scParams[k] ELSE <<>>,
      perGiBLimitType |-> PerGiBTypeOf(k),
      perGiBLimit |-> IF Has(scParams, k) /\ Has(scParams, PerGiBTypeOf(k))
                        THEN scParams[PerGiBTypeOf(k)] ELSE <<>>,
      present |-> Has(scParams, k)]]

\* rv.QosParameters[k] = v
SetLimit(rv, k, v) ==
  [rv EXCEPT !.QosParameters = (k :> v) @@ rv.QosParameters]

\* calcQosBasedOnCapacity that parses the per-GiB value whenever it is set
calcQos_StrictParse(rv, qos) ==
  IF qos.baseLimit = <<>> THEN [err |-> FALSE, rv |-> rv]
  ELSE
  LET baseLimit == ParseInt(qos.baseLimit)
      perGiBLimit == ParseInt(qos.perGiBLimit)
      baseVolSize == ParseInt(rv.BaseVolSize)
      capacityQos ==
        Wrap(Wrap(Quo(Wrap(rv.RequestedVolSize - baseVolSize.val), oneGB))
               * perGiBLimit.val)
      finalQosLimit == Wrap(baseLimit.val + capacityQos)
  IN  IF ~baseLimit.ok THEN [err |-> TRUE, rv |-> rv]
      ELSE IF qos.perGiBLimit # <<>> /\ ~perGiBLimit.ok
        THEN [err |-> TRUE, rv |-> rv]
      ELSE IF qos.perGiBLimit # <<>> /\ rv.BaseVolSize # <<>>
        THEN IF ~baseVolSize.ok THEN [err |-> TRUE, rv |-> rv]
             ELSE IF rv.RequestedVolSize <= baseVolSize.val
               THEN [err |-> FALSE,
                     rv |-> SetLimit(rv, qos.baseLimitType, qos.baseLimit)]
               ELSE [err |-> FALSE,
                     rv |-> SetLimit(rv, qos.baseLimitType,
                                     FormatInt(finalQosLimit))]
        ELSE [err |-> FALSE,
              rv |-> SetLimit(rv, qos.baseLimitType, qos.baseLimit)]

calcQosBasedOnCapacity(rv, qos) ==
  IF qos.baseLimit = <<>> THEN [err |-> FALSE, rv |-> rv]
  ELSE
  LET baseLimit == ParseInt(qos.baseLimit)
      perGiBLimit == ParseInt(qos.perGiBLimit)
      baseVolSize == ParseInt(rv.BaseVolSize)
      capacityQos ==
        Wrap(Wrap(Quo(Wrap(rv.RequestedVolSize - baseVolSize.val), oneGB))
               * perGiBLimit.val)
      finalQosLimit == Wrap(baseLimit.val + capacityQos)
  IN  IF ~baseLimit.ok THEN [err |-> TRUE, rv |-> rv]
      ELSE IF qos.perGiBLimit # <<>> /\ rv.BaseVolSize # <<>>
        THEN IF ~perGiBLimit.ok THEN [err |-> TRUE, rv |-> rv]
             ELSE IF ~baseVolSize.ok THEN [err |-> TRUE, rv |-> rv]
             ELSE IF rv.RequestedVolSize <= baseVolSize.val
               THEN [err |-> FALSE,
                     rv |-> SetLimit(rv, qos.baseLimitType, qos.baseLimit)]
               ELSE [err |-> FALSE,
                     rv |-> SetLimit(rv, qos.baseLimitType,
                                     FormatInt(finalQosLimit))]
        ELSE [err |-> FALSE,
              rv |-> SetLimit(rv, qos.baseLimitType, qos.baseLimit)]

\* the orders in which a range over a map visits the keys ks
Orders(ks) ==
  {o \in [1..Cardinality(ks) -> ks] :
     \A i, j \in 1..Cardinality(ks) : i # j => o[i] # o[j]}

\* the values of the parameters: not in the map, empty, an integer with and
\* without a sign, no integer, the largest integer and one beyond it
Absent == <<"absent">>
BaseValues ==
  {Absent, <<>>, <<"8">>, <<"+", "8">>, <<"x">>, <<"3", "1">>, <<"3", "2">>}
PerGiBValues == {Absent, <<>>, <<"2">>, <<"x">>, <<"3", "1">>}
BaseVolSizeValues == {Absent, <<>>, <<"4">>, <<"x">>, <<"-", "3", "2">>}
RequestedVolSizes == {0, 4, 9, 12, 31}

\* the map of the parameters that are not absent
ScParams(ch) == [k \in {x \in DOMAIN ch : ch[x] # Absent} |-> ch[k]]

QosInputs ==
  {ScParams((baseReadIops :> a) @@ (readIopsPerGiB :> b)
              @@ (baseVolSizeBytes :> c) @@ (baseWriteIops :> d)
              @@ (writeIopsPerGiB :> e)) :
     a \in BaseValues, b \in PerGiBValues, c \in BaseVolSizeValues,
     d \in {Absent, <<"1">>, <<"x">>}, e \in {Absent, <<"1">>}}

\* a volume without QoS parameters and the parameters of a StorageClass
QosInit ==
  /\ locks = {} /\ groups = {} /\ members = {} /\ snaps = {} /\ nextId = 1
  /\ call = [p \in Procs |-> IdleCall]
  /\ faults = 0
  /\ leaked = {}
  /\ conv = NoConv
  /\ util \in {[fn |-> "SetQOS", scParams |-> m, done |-> FALSE, err |-> FALSE,
                rv |-> [BaseVolSize |-> <<>>, RequestedVolSize |-> r,
                        QosParameters |-> <<>>]] :
                 m \in QosInputs, r \in RequestedVolSizes}

\* SetQOS: the base volume size, then calcQosBasedOnCapacity for the
\* parameters that are present, in the order of the range over the map, up
\* to the first error
SetQOS ==
  /\ util.fn = "SetQOS" /\ ~util.done
  /\ LET rbdQosParameters == parseQosParams(util.scParams)
         present == {k \in QosBaseKeys : rbdQosParameters[k].present}
         rv0 == [util.rv EXCEPT !.BaseVolSize =
                   IF Has(util.scParams, baseVolSizeBytes)
                     THEN util.scParams[baseVolSizeBytes] ELSE <<>>]
     IN  \E o \in Orders(present) :
           LET R[j \in 0..Len(o)] ==
                 IF j = 0 THEN [err |-> FALSE, rv |-> rv0]
                 ELSE IF R[j - 1].err THEN R[j - 1]
                 ELSE calcQosBasedOnCapacity(R[j - 1].rv,
                                             rbdQosParameters[o[j]])
           IN  util' = [util EXCEPT !.done = TRUE, !.err = R[Len(o)].err,
                                    !.rv = R[Len(o)].rv]
  /\ UNCHANGED <<locks, storage, call, faults, leaked, conv>>

QosSpec == QosInit /\ [][SetQOS]_vars

(* -------------------------------- AddKey ------------------------------- *)
\* add attempts of one AddKey call the model follows
MaxAdds == 3

\* a key slot without a key
NoKey == "-"
\* the LUKS header: the key of the slot AddKey is called for and the key of
\* one other slot
Devices == [slot : {NoKey, "old", "new", "other"}, rest : {NoKey, "old", "other"}]

\* the passphrase unlocks a key slot of the device
Unlocks(dev, passphrase) == passphrase \in {dev.slot, dev.rest}

\* the cryptsetup commands that ran, with their outcomes, in order
Ran(c, out) == [util EXCEPT !.log = Append(@, c \o ":" \o out)]
Count(log, c) ==
  Cardinality({j \in 1..Len(log) : log[j] \in {c \o ":" \o o :
                                    o \in {"ok", "full", "err", "yes", "no",
                                           "inactive"}}})

\* a function returns err
Return(u, err) == [u EXCEPT !.pc = "done", !.err = err]

\* AddKey or RemoveKey is called on a device, with the passphrase of the
\* volume ("old") or with one that is in no slot ("bad"); the slots hold
\* the old key, the new one, the key of another owner, or none
LuksInit ==
  /\ locks = {} /\ groups = {} /\ members = {} /\ snaps = {} /\ nextId = 1
  /\ call = [p \in Procs |-> IdleCall]
  /\ faults = 0
  /\ leaked = {}
  /\ conv = NoConv
  /\ util \in {[fn |-> f, pc |-> IF f = "AddKey" THEN "add" ELSE "remove",
                passphrase |-> p, newPassphrase |-> "new",
                dev |-> d, dev0 |-> d, log |-> <<>>, err |-> "nil"] :
                 f \in {"AddKey", "RemoveKey"}, p \in {"old", "bad"},
                 d \in Devices}

\* AddKey up to the outcome of luksAddKey: the two temporary files, the
\* command, the return on success, the test of stderr for the full slot,
\* the return of the error.  A repeated AddKey returns to the first.
LuksAddKey ==
  /\ util.fn = "AddKey" /\ util.pc = "add"
  /\ Count(util.log, "add") < MaxAdds
  /\ \/ util' = Return(Ran("tmp", "err"), "tmpfile")
     \/ /\ util.dev.slot = NoKey /\ Unlocks(util.dev, util.passphrase)
        /\ util' = Return([Ran("add", "ok") EXCEPT
                             !.dev.slot = util.newPassphrase], util.err)
     \/ /\ util.dev.slot # NoKey
        /\ util' = [Ran("add", "full") EXCEPT !.pc = "verify"]
     \/ util' = Return(Ran("add", "err"), "luksAddKey")
  /\ UNCHANGED <<locks, storage, call, faults, leaked, conv>>

\* VerifyKey that is followed by RemoveKey also when the key is there
LuksVerifyKey_RemoveAnyway ==
  /\ util.fn = "AddKey" /\ util.pc = "verify"
  /\ \/ /\ util.dev.slot = util.newPassphrase
        /\ util' = [Ran("verify", "yes") EXCEPT !.pc = "remove"]
     \/ /\ util.dev.slot # util.newPassphrase
        /\ util' = [Ran("verify", "no") EXCEPT !.pc = "remove"]
     \/ util' = Return(Ran("verify", "err"), "luksChangeKey")
  /\ UNCHANGED <<locks, storage, call, faults, leaked, conv>>

\* VerifyKey with the new passphrase, and what AddKey does with its result:
\* luksChangeKey of the slot to the same passphrase works when the slot
\* holds it, says that no key is available when not, or fails
LuksVerifyKey ==
  /\ util.fn = "AddKey" /\ util.pc = "verify"
  /\ \/ /\ util.dev.slot = util.newPassphrase
        /\ util' = Return(Ran("verify", "yes"), util.err)
     \/ /\ util.dev.slot # util.newPassphrase
        /\ util' = [Ran("verify", "no") EXCEPT !.pc = "remove"]
     \/ util' = Return(Ran("verify", "err"), "luksChangeKey")
  /\ UNCHANGED <<locks, storage, call, faults, leaked, conv>>

\* RemoveKey that takes every error of luksKillSlot for an inactive slot
LuksRemoveKey_IgnoreErrors ==
  /\ util.pc = "remove"
  /\ LET next(u) == IF util.fn = "AddKey" THEN [u EXCEPT !.pc = "add"]
                    ELSE Return(u, util.err)
     IN  \/ /\ util.dev.slot # NoKey /\ Unlocks(util.dev, util.passphrase)
            /\ util' = next([Ran("kill", "ok") EXCEPT !.dev.slot = NoKey])
         \/ /\ util.dev.slot = NoKey
            /\ util' = next(Ran("kill", "inactive"))
         \/ util' = next(Ran("kill", "err"))
  /\ UNCHANGED <<locks, storage, call, faults, leaked, conv>>

\* RemoveKey with the passphrase of the volume: luksKillSlot empties the
\* slot, or says that the slot is not active, which is no error, or fails;
\* AddKey returns the error, or calls AddKey again
LuksRemoveKey ==
  /\ util.pc = "remove"
  /\ LET next(u) == IF util.fn = "AddKey" THEN [u EXCEPT !.pc = "add"]
                    ELSE Return(u, util.err)
     IN  \/ /\ util.dev.slot # NoKey /\ Unlocks(util.dev, util.passphrase)
            /\ util' = next([Ran("kill", "ok") EXCEPT !.dev.slot = NoKey])
         \/ /\ util.dev.slot = NoKey
            /\ util' = next(Ran("kill", "inactive"))
         \/ util' = Return(Ran("kill", "err"), "luksKillSlot")
  /\ UNCHANGED <<locks, storage, call, faults, leaked, conv>>

LuksNext == LuksAddKey \/ LuksVerifyKey \/ LuksRemoveKey

LuksSpec == LuksInit /\ [][LuksNext]_vars

\* a cryptsetup command returns: execCryptsetupCommand runs it under the
\* deadline of the context
LuksFairSpec == LuksSpec /\ WF_vars(LuksNext)

(* ----------------------- ShouldRetryVolumeGeneration -------------------- *)
\* layers of fmt.Errorf around an error the model follows
MaxWraps == 2

\* the errors the function names
ErrImageNotFound == "ErrImageNotFound"
ErrKeyNotFound == "ErrKeyNotFound"
ErrPoolNotFound == "ErrPoolNotFound"
radosErrPermissionDenied == "rados.ErrPermissionDenied"
\* with them the other errors of package util, another error of package
\* rados, errors.New of a text of its own, and errors.New of the text of
\* ErrKeyNotFound, which is another error value
BaseErrors ==
  {ErrImageNotFound, ErrKeyNotFound, ErrPoolNotFound, radosErrPermissionDenied,
   "ErrObjectExists", "ErrObjectNotFound", "ErrSnapNameConflict",
   "ErrClusterIDNotSet", "ErrMissingConfigForMonitor", "rados.ErrNotFound",
   "unknown error", "errors.New(key not found)"}

\* fmt.Errorf with %w, whose Unwrap gives the error inside, and fmt.Errorf
\* with %v, which keeps the text of the error inside only
Wrappers == {"%w", "%v"}

\* an error is the layers around it, outermost first, and the error inside;
\* the nil error has none
NilError == <<>>
Errors ==
  {NilError} \cup
  UNION {{w \o <<b>> : w \in [1..n -> Wrappers], b \in BaseErrors} :
           n \in 0..MaxWraps}

\* errors.Is: err or an error of its Unwrap chain is the target
RECURSIVE ErrorsIs(_, _)
ErrorsIs(err, target) ==
  IF err = NilError THEN FALSE
  ELSE IF Head(err) = target THEN TRUE
  ELSE IF Head(err) = "%w" THEN ErrorsIs(Tail(err), target)
  ELSE FALSE

\* the test of the error itself, without its Unwrap chain
ShouldRetry_NoUnwrap(err) ==
  IF err = NilError THEN FALSE
  ELSE \/ Head(err) = ErrKeyNotFound
       \/ Head(err) = ErrPoolNotFound
       \/ Head(err) = ErrImageNotFound
       \/ Head(err) = radosErrPermissionDenied

ShouldRetryVolumeGeneration(err) ==
  IF err = NilError THEN FALSE
  ELSE \/ ErrorsIs(err, ErrKeyNotFound)
       \/ ErrorsIs(err, ErrPoolNotFound)
       \/ ErrorsIs(err, ErrImageNotFound)
       \/ ErrorsIs(err, radosErrPermissionDenied)

\* the function is called with an error
RetryInit ==
  /\ locks = {} /\ groups = {} /\ members = {} /\ snaps = {} /\ nextId = 1
  /\ call = [p \in Procs |-> IdleCall]
  /\ faults = 0
  /\ leaked = {}
  /\ conv = NoConv
  /\ util \in {[fn |-> "ShouldRetryVolumeGeneration", err |-> e,
                done |-> FALSE, ret |-> FALSE] : e \in Errors}

ShouldRetry ==
  /\ util.fn = "ShouldRetryVolumeGeneration" /\ ~util.done
  /\ util' = [util EXCEPT !.done = TRUE,
                          !.ret = ShouldRetryVolumeGeneration(util.err)]
  /\ UNCHANGED <<locks, storage, call, faults, leaked, conv>>

RetrySpec == RetryInit /\ [][ShouldRetry]_vars

(* ------------------------------ properties ---------------------------- *)
\* the handler is past lock acquisition and has not returned
PastLock(p) == call[p].acquired
\* the handler has run all its deferred cleanup and returns
Returning(p) == call[p].pc = "release"
IsCreate(p) == call[p].op = "create"

\* the calls of Create that change the cluster or a volume
Mutating ==
  {"PrepareVolumeForSnapshot", "CreateVolumeGroup", "AddVolume",
   "CreateVolumeGroupSnapshot", "RemoveVolume", "DeleteVolumeGroup"}

\* C1: of the Create calls with one name at most one is past lock
\* acquisition; a Create that finds the name locked has returned Aborted
\* without a call into the cluster and without waiting for the lock.
C1_MutualExclusion ==
  /\ \A p, q \in Procs :
       (p # q /\ IsCreate(p) /\ IsCreate(q) /\ PastLock(p) /\ PastLock(q))
         => call[p].name # call[q].name
  /\ \A p \in Procs :
       IsCreate(p) =>
         \/ PastLock(p)
         \/ /\ call[p].pc = "rejected"
            /\ call[p].code = "Aborted"
            /\ call[p].ops = {}

C1_Witness ==
  \E p, q \in Procs :
    /\ IsCreate(p) /\ PastLock(p)
    /\ IsCreate(q) /\ call[q].pc = "rejected"
    /\ call[q].name = call[p].name

LocksHeld == locks = {call[p].name : p \in {q \in Procs : PastLock(q)}}

\* C3: the keys that are held are exactly the keys of the calls that
\* acquired one and have not returned, so the key of a call that returned is
\* free; and every call that acquired a key returns and releases it: at any
\* time, every handler is again outside a call some time later.
C3_LockReleased ==
  /\ []LocksHeld
  /\ \A p \in Procs : []<>(~PastLock(p))

C3_Witness ==
  /\ \A p \in Procs : call[p].pc = "idle"
  /\ locks = {}
  /\ snaps # {}
  /\ groups # {}

Before(c, k) == {c.volumes[j] : j \in 1..(k - 1)}

C7_Unresolvable ==
  \A p \in Procs :
    (IsCreate(p) /\ call[p].failStep = "resolve")
      => /\ Returning(p)
         /\ call[p].code = "InvalidArgument"
         /\ call[p].ops = {"GetVolumeByID"}
         /\ call[p].vg = Nil
         /\ call[p].ids[call[p].failIdx] \notin Vols
         /\ \A j \in 1..Len(call[p].ids) :
              call[p].volumes[j] =
                IF j < call[p].failIdx THEN call[p].ids[j] ELSE Nil

C7_Witness ==
  \E p \in Procs :
    /\ IsCreate(p) /\ call[p].failStep = "resolve"
    /\ call[p].failIdx = 1 /\ Len(call[p].ids) = 2

\* the step of Delete that finds no group snapshot with the ID
DeleteNotFound(p) ==
  /\ call[p].op = "delete" /\ call[p].pc = "dlookup"
  /\ call'[p].lookup = "notfound"

\* C8: a Delete whose lookup finds nothing returns success, has not called
\* the delete of the cluster, and leaves the cluster as it was, however
\* often it is repeated.
C8_DeleteIdempotent ==
  /\ [](\A p \in Procs :
          (call[p].op = "delete" /\ call[p].lookup = "notfound")
            => /\ Returning(p)
               /\ call[p].code = "OK"
               /\ call[p].ops = {"GetVolumeGroupSnapshotByID"})
  /\ [][\A p \in Procs : DeleteNotFound(p) => storage' = storage]_vars

\* a Delete of a group snapshot that an earlier Delete has removed
C8_Witness ==
  \E p \in Procs :
    /\ call[p].op = "delete" /\ call[p].lookup = "notfound"
    /\ call[p].code = "OK" /\ Returning(p)
    /\ call[p].name = IdOf(1) /\ nextId > 1 /\ snaps = {}

\* C9: a group snapshot in the cluster holds a member for every volume of
\* the request it was made for, and for no other, in every state; so does
\* every group snapshot a Get or a Create has found.
C9_AtomicVisibility ==
  /\ \A s \in snaps : s.members = Range(s.want)
  /\ \A p \in Procs :
       (call[p].lookup = "found" /\ call[p].code = "OK")
         => \E ids \in IdLists : call[p].resp.members = Range(ids)

C9_Witness ==
  \E p, q \in Procs, s \in snaps :
    /\ IsCreate(p) /\ call[p].pc = "rmvol" /\ call[p].name = s.name
    /\ Cardinality(s.members) = 2
    /\ call[q].op = "get" /\ call[q].lookup = "found"
    /\ call[q].resp.members = s.members

\* C10: a volume is in at most one group, in every state; and a Create
\* whose AddVolume fails returns Aborted.
C10_SingleGroup ==
  /\ \A v \in Vols : Cardinality({m \in members : m[2] = v}) <= 1
  /\ \A p \in Procs :
       (IsCreate(p) /\ call[p].failStep = "add") => call[p].code = "Aborted"

C10_Witness ==
  \E p, q \in Procs :
    /\ p # q /\ IsCreate(p) /\ IsCreate(q)
    /\ call[p].failStep = "add" /\ call[p].failIdx = 2
    /\ call[q].vg # Nil /\ call[q].name # call[p].name
    /\ <<call[q].vg, call[p].volumes[2]>> \in members
    /\ <<call[p].vg, call[p].volumes[1]>> \in members

\* the Create made the group snapshot itself and every call it made worked
FreshSuccess(p) ==
  /\ IsCreate(p) /\ Returning(p) /\ call[p].code = "OK"
  /\ "CreateVolumeGroupSnapshot" \in call[p].ops
  /\ ~call[p].rmFailed /\ ~call[p].delFailed

Quiet(n) ==
  \A p \in Procs : ~(IsCreate(p) /\ PastLock(p) /\ call[p].name = n)

Prepares(p) ==
  /\ IsCreate(p) /\ call[p].pc = "prepare"
  /\ call'[p] # call[p]

C14_PrepareFailures ==
  \A p \in Procs :
    /\ (IsCreate(p) /\ call[p].creds # "none")
         => call[p].prepared = Len(call[p].ids)
    /\ (IsCreate(p) /\ call[p].failStep = "prepare")
         => /\ Returning(p)
            /\ call[p].failIdx \in 1..Len(call[p].ids)
            /\ Len(call[p].errList) \in 1..(Len(call[p].ids) - call[p].failIdx + 1)
            /\ call[p].code = call[p].errList[1]
            /\ call[p].code \in PrepCodes
            /\ "CreateVolumeGroup" \notin call[p].ops
            /\ call[p].vg = Nil

\* both volumes fail, with different codes
C14_Witness ==
  \E p \in Procs :
    /\ IsCreate(p) /\ call[p].failStep = "prepare" /\ call[p].failIdx = 1
    /\ call[p].errList = <<"Unknown", "Internal">>
    /\ call[p].code = "Unknown"
    /\ call[p].prepared = 2

\* the code Create returns when the step fails
StepCode(step) == IF step = "mkgroup" THEN "Internal" ELSE "Aborted"

\* the calls of the saga that come after the step
StepsAfter(step) ==
  IF step = "mkgroup" THEN {"AddVolume", "CreateVolumeGroupSnapshot"}
  ELSE IF step = "add" THEN {"CreateVolumeGroupSnapshot"}
  ELSE {}

\* C15: a Create that failed at CreateVolumeGroup, AddVolume,
\* CreateVolumeGroupSnapshot or the conversion is in its cleanup or returns,
\* has made none of the calls that come after the failed step (after a
\* failed AddVolume no further AddVolume either), has no group snapshot to
\* return, and returns Internal for CreateVolumeGroup and Aborted for the
\* other three.
C15_FirstError ==
  \A p \in Procs :
    (IsCreate(p) /\ call[p].failStep \in {"mkgroup", "add", "snap", "convert"})
      => /\ call[p].pc \in {"rmvol", "delgroup", "release"}
         /\ call[p].code = StepCode(call[p].failStep)
         /\ call[p].ops \cap StepsAfter(call[p].failStep) = {}
         /\ call[p].failStep = "mkgroup" => call[p].vg = Nil
         /\ call[p].failStep = "add"
              => call[p].added = Before(call[p], call[p].failIdx)
         /\ call[p].resp = NoResp

C15_Witness ==
  \E p, q \in Procs :
    /\ IsCreate(p) /\ call[p].failStep = "snap" /\ call[p].pc = "rmvol"
    /\ call[p].added = {"v1", "v2"} /\ call[p].code = "Aborted"
    /\ IsCreate(q) /\ call[q].failStep = "mkgroup"
    /\ call[q].code = "Internal"

\* a step of the cleanup of a Create: a RemoveVolume or the Delete of the
\* group
CleanupStep(p) ==
  /\ IsCreate(p) /\ call[p].pc \in {"rmvol", "delgroup"}
  /\ call'[p] # call[p]

\* C16: no step of the cleanup, whether its call works or fails, changes
\* what the Create returns: the code, the response and the failed step stay
\* as they were when the cleanup began; and a Create returns OK with its
\* response exactly when no step before the cleanup failed.
C16_CleanupSwallowed ==
  /\ [][\A p \in Procs :
          CleanupStep(p)
            => /\ call'[p].code = call[p].code
               /\ call'[p].resp = call[p].resp
               /\ call'[p].failStep = call[p].failStep]_vars
  /\ [](\A p \in Procs :
          (IsCreate(p) /\ Returning(p))
            => /\ (call[p].code = "OK") = (call[p].failStep = "none")
               /\ (call[p].code = "OK") = (call[p].resp # NoResp))

\* a Create returns OK although a RemoveVolume and the Delete failed
C16_Witness ==
  \E p \in Procs :
    /\ IsCreate(p) /\ Returning(p)
    /\ call[p].rmFailed /\ call[p].delFailed
    /\ call[p].code = "OK" /\ call[p].resp.ready

\* a step of a Get: its entry (the lock acquired or refused), its lookup,
\* its return
GetStep(p) ==
  /\ call'[p] # call[p]
  /\ call[p].op = "get" \/ call'[p].op = "get"

\* C17: a Get whose lookup finds nothing returns NotFound; one whose lookup
\* finds the group snapshot returns it converted, the group snapshot of
\* that ID in the cluster, or Aborted when the conversion fails; one whose
\* lookup fails returns Internal; and no step of a Get changes the groups,
\* the memberships or the group snapshots.
C17_GetSemantics ==
  /\ [](\A p \in Procs :
          (call[p].op = "get" /\ PastLock(p) /\ call[p].lookup # "none")
            => /\ Returning(p)
               /\ call[p].ops = {"GetVolumeGroupSnapshotByID"}
               /\ call[p].lookup = "notfound"
                    => call[p].code = "NotFound" /\ call[p].resp = NoResp
               /\ call[p].lookup = "error"
                    => call[p].code = "Internal" /\ call[p].resp = NoResp
               /\ call[p].lookup = "found"
                    => \E s \in ByID(call[p].name) :
                         IF ToCSIOk(s)
                           THEN call[p].code = "OK" /\ call[p].resp = ToCSI(s)
                           ELSE call[p].code = "Aborted"
                                  /\ call[p].resp = NoResp)
  /\ [][\A p \in Procs : GetStep(p) => storage' = storage]_vars

C17_Witness ==
  \E p \in Procs :
    /\ call[p].op = "get" /\ Returning(p)
    /\ call[p].lookup = "found" /\ call[p].code = "OK"
    /\ call[p].resp.members = {"v1", "v2"}
    /\ groups = {}
    /\ \A q \in Procs \ {p} : call[q].pc = "idle"

\* the handler runs a Get and holds its lock
GetHolds(p) == call[p].op = "get" /\ PastLock(p)

\* the handler runs the Create that made the group snapshot with the ID and
\* has not returned
Produced(q, id) ==
  /\ IsCreate(q) /\ PastLock(q)
  /\ "CreateVolumeGroupSnapshot" \in call[q].ops
  /\ call[q].code = "OK" /\ call[q].resp.id = id

\* C18 as stated: while a Get holds the lock of an ID, neither a Delete of
\* the ID nor the Create that made the group snapshot with the ID is
\* running.
C18_Original ==
  \A p, q \in Procs :
    (p # q /\ GetHolds(p))
      => /\ ~(call[q].op = "delete" /\ PastLock(q)
               /\ call[q].name = call[p].name)
         /\ ~Produced(q, call[p].name)

\* C18, amended: while a Get holds the lock of an ID, no Delete of the ID
\* is past lock acquisition, and no step removes the group snapshot with
\* the ID from the cluster.
C18_GetSerialized ==
  /\ [](\A p, q \in Procs :
          (p # q /\ GetHolds(p))
            => ~(call[q].op = "delete" /\ PastLock(q)
                   /\ call[q].name = call[p].name))
  /\ [][\A p \in Procs :
          GetHolds(p) => \A s \in ByID(call[p].name) : s \in snaps']_vars

\* a Delete of the ID is refused while the Get has found the group snapshot
C18_Witness ==
  \E p, q \in Procs :
    /\ GetHolds(p) /\ call[p].lookup = "found"
    /\ call[q].op = "delete" /\ call[q].pc = "rejected"
    /\ call[q].name = call[p].name
    /\ ByID(call[p].name) # {}

\* the handler runs a Delete or a Get
ByIdOp(p) == call[p].op \in {"delete", "get"}

\* C19: of the Delete and Get calls on one ID at most one is past lock
\* acquisition; a Delete or Get that finds the ID locked has returned
\* Aborted at once, without a lookup and without a delete.
C19_SameKey ==
  /\ \A p, q \in Procs :
       (p # q /\ ByIdOp(p) /\ ByIdOp(q) /\ PastLock(p) /\ PastLock(q))
         => call[p].name # call[q].name
  /\ \A p \in Procs :
       ByIdOp(p) =>
         \/ PastLock(p)
         \/ /\ call[p].pc = "rejected"
            /\ call[p].code = "Aborted"
            /\ call[p].ops = {}
            /\ call[p].lookup = "none"

\* a Get is refused while a Delete has found the group snapshot
C19_Witness ==
  \E p, q \in Procs :
    /\ call[p].op = "delete" /\ call[p].pc = "ddelete"
    /\ call[q].op = "get" /\ call[q].pc = "rejected"
    /\ call[q].name = call[p].name

\* the handler can take a request
Free(p) == call[p].pc \in {"idle", "rejected"}

\* the handler enters a call with the key k and acquires the lock
Acquires(p, k) == call'[p].name = k /\ call'[p].acquired

\* the step in which a request of the handler is refused at the lock
Refused(p) == call'[p].pc = "rejected" /\ call'[p] # call[p]

\* C20: a request whose key is not held acquires the lock, whatever other
\* keys are held: for every handler that can take a request and every key
\* that is free, the Create, the Delete and the Get with that key can enter
\* and acquire it; and a request is refused only when a call that has not
\* returned holds the very key of the request.
C20_Independence ==
  /\ [](\A p \in Procs :
          Free(p)
            => /\ \A n \in Names \ locks :
                    ENABLED (CreateEnter(p) /\ Acquires(p, n))
               /\ \A id \in SnapIDs \ locks :
                    /\ ENABLED (DeleteEnter(p) /\ Acquires(p, id))
                    /\ ENABLED (GetEnter(p) /\ Acquires(p, id)))
  /\ [][\A p \in Procs :
          Refused(p)
            => \E q \in Procs \ {p} :
                 PastLock(q) /\ call[q].name = call'[p].name]_vars

\* two Creates with different names hold their locks and have made their
\* groups
C20_Witness ==
  \E p, q \in Procs :
    /\ IsCreate(p) /\ IsCreate(q) /\ PastLock(p) /\ PastLock(q)
    /\ call[p].name # call[q].name
    /\ call[p].vg \in groups /\ call[q].vg \in groups

\* the ID was handed out and no group snapshot has it: it was deleted
Gone(id) ==
  /\ \E k \in 1..(nextId - 1) : id = IdOf(k)
  /\ ByID(id) = {}

\* a step of the handler while it runs a Delete that is past the lock
DeleteStep(p) ==
  /\ call[p].op = "delete" /\ PastLock(p)
  /\ call'[p] # call[p]

\* C21: a Delete whose lookup finds the group snapshot calls the delete of
\* the cluster in one step, its only one that changes the cluster; when the
\* delete works the Delete returns OK and the group snapshot is gone, and
\* stays gone, so that a Get of the ID whose lookup works returns NotFound
\* and a Delete of it returns OK; when the lookup fails, without the delete
\* being called, or the delete fails, the Delete returns Internal.
C21_DeleteExisting ==
  /\ [](\A p \in Procs :
          call[p].op = "delete" /\ PastLock(p)
            => /\ call[p].pc = "ddelete"
                    => /\ call[p].lookup = "found"
                       /\ "DeleteVolumeGroupSnapshot" \notin call[p].ops
               /\ "DeleteVolumeGroupSnapshot" \in call[p].ops
                    => /\ Returning(p) /\ call[p].lookup = "found"
                       /\ call[p].code \in {"OK", "Internal"}
                       /\ call[p].code = "OK" => Gone(call[p].name)
                       /\ (call[p].code = "Internal")
                            = (call[p].failStep = "delete")
               /\ call[p].lookup = "error"
                    => /\ Returning(p) /\ call[p].code = "Internal"
                       /\ "DeleteVolumeGroupSnapshot" \notin call[p].ops)
  /\ [](\A p \in Procs, id \in SnapIDs :
          (Gone(id) /\ call[p].name = id /\ Returning(p)
             /\ call[p].lookup # "error")
            => /\ call[p].op = "get" => call[p].code = "NotFound"
               /\ call[p].op = "delete" => call[p].code = "OK")
  /\ [][/\ \A id \in SnapIDs : Gone(id) => Gone(id)'
        /\ \A p \in Procs :
             DeleteStep(p)
               => \/ storage' = storage
                  \/ /\ call[p].pc = "ddelete" /\ Returning(p)'
                     /\ snaps' = snaps \ ByID(call[p].name)
                     /\ UNCHANGED <<groups, members, nextId>>]_vars

\* a Get of a group snapshot that a Delete has removed returns NotFound
C21_Witness ==
  \E p \in Procs :
    /\ call[p].op = "get" /\ Returning(p) /\ call[p].code = "NotFound"
    /\ Gone(call[p].name)
    /\ \A q \in Procs \ {p} : call[q].pc = "idle"

\* every ID of the request is resolved to its volume
AllResolved(c) ==
  \A j \in 1..Len(c.ids) : c.ids[j] \in Vols /\ c.volumes[j] = c.ids[j]

\* the step in which a Create looks the name up
LooksUp(p) ==
  /\ IsCreate(p) /\ call[p].pc = "lookup"
  /\ call'[p] # call[p]

\* C22: a Create with an ID that does not resolve returns InvalidArgument
\* without a lookup by name and without a response, also when a group
\* snapshot of the name exists; a Create looks the name up only with every
\* ID resolved and before any call that changes the cluster, and the lookup
\* itself changes nothing in the cluster.
C22_ResolveFirst ==
  /\ [](\A p \in Procs :
          (IsCreate(p) /\ PastLock(p))
            => /\ (FirstBad(call[p].ids) # 0 /\ call[p].pc # "resolve")
                    => /\ Returning(p)
                       /\ call[p].code = "InvalidArgument"
                       /\ call[p].resp = NoResp
                       /\ "GetVolumeGroupSnapshotByName" \notin call[p].ops
               /\ (call[p].pc = "lookup"
                     \/ "GetVolumeGroupSnapshotByName" \in call[p].ops)
                    => AllResolved(call[p])
               /\ call[p].pc = "lookup"
                    => /\ call[p].ops \cap Mutating = {}
                       /\ call[p].vg = Nil /\ call[p].creds = "none")
  /\ [][\A p \in Procs : LooksUp(p) => storage' = storage]_vars

\* the group snapshot of the name is there, and would be returned, when the
\* Create with an ID that does not resolve returns InvalidArgument
C22_Witness ==
  \E p \in Procs :
    /\ IsCreate(p) /\ Returning(p) /\ call[p].code = "InvalidArgument"
    /\ call[p].ids = <<"v1", "vX">>
    /\ call[p].prior # NoResp
    /\ \E s \in ByName(call[p].name) : ToCSIOk(s)

\* the names of the group snapshots that are completed or requested
SnapshotNames ==
  {s.name : s \in snaps} \cup {call[q].name : q \in {r \in Procs : IsCreate(r)}}

\* the handler runs a Create whose group is in the cluster
GroupInFlight(p) ==
  IsCreate(p) /\ PastLock(p) /\ call[p].vg # Nil /\ call[p].vg \in groups

\* C23: the name of the group of a Create in flight is not the name of a
\* group snapshot that is completed or requested, whatever the names of the
\* requests are.
C23_NoAlias ==
  \A p \in Procs : GroupInFlight(p) => call[p].vg \notin SnapshotNames

\* the fields ToCSI requires of a volume and of a snapshot
VolumeRequired == {"VolID", "Pool", "JournalPool", "RbdImageName"}
SnapshotRequired == {"VolID", "SourceVolumeID", "CreatedAt"}

Missing(x, fields) == \E f \in fields : x[f] = Unset

\* a required field of the group snapshot, or of a snapshot of it, is unset
GroupMissing(g) ==
  \/ g.id = Unset
  \/ \E j \in 1..Len(g.snapshots) : Missing(g.snapshots[j], SnapshotRequired)

\* the group snapshot put into the cluster by Register: it has the first ID
Registered(s) == s.id = IdOf(1)

\* the step in which a Create or a Get finds a group snapshot, and finds the
\* registered one
FindsRegistered(p) ==
  /\ call[p].pc \in {"lookup", "glookup"}
  /\ call'[p].lookup = "found"
  /\ IF IsCreate(p)
       THEN \A s \in ByName(call[p].name) : Registered(s)
       ELSE \A s \in ByID(call[p].name) : Registered(s)

NoSourceVolumes(p) == Len(call[p].ids) = 0

\* C25: a Create without source volume IDs returns InvalidArgument, makes no
\* group and makes no group snapshot.
C25_MissingFields ==
  \A p \in Procs :
    (IsCreate(p) /\ PastLock(p) /\ NoSourceVolumes(p))
      => /\ Returning(p) => call[p].code = "InvalidArgument"
         /\ call[p].vg = Nil
         /\ "CreateVolumeGroup" \notin call[p].ops
         /\ "CreateVolumeGroupSnapshot" \notin call[p].ops

\* the place of a step in the order of a Create call
Rank(pc) ==
  CASE pc = "resolve" -> 1 [] pc = "lookup" -> 2 [] pc = "prepare" -> 3
    [] pc = "mkgroup" -> 4 [] pc = "add" -> 5 [] pc = "snap" -> 6
    [] pc = "rmvol" -> 7 [] pc = "delgroup" -> 8 [] pc = "release" -> 9
    [] OTHER -> 0

\* a step of the handler within a Create call, the return excluded
CreateStep(p) ==
  /\ IsCreate(p) /\ PastLock(p) /\ call'[p] # call[p]
  /\ call'[p].op = "create"

\* C26: within a Create call the steps go forward only: a step leads to a
\* later step, or to the next volume of the AddVolume or the RemoveVolume
\* loop, so that no call is made a second time; CreateVolumeGroup is called
\* only with every ID resolved, the lookup by name done without finding a
\* group snapshot, and PrepareVolumeForSnapshot called for every volume
\* without an error; CreateVolumeGroupSnapshot is called only with every
\* volume added, and after it only the cleanup runs.
C26_StepOrder ==
  /\ [](\A p \in Procs :
          (IsCreate(p) /\ PastLock(p))
            => /\ (call[p].pc = "mkgroup" \/ "CreateVolumeGroup" \in call[p].ops)
                    => /\ AllResolved(call[p])
                       /\ "GetVolumeGroupSnapshotByName" \in call[p].ops
                       /\ call[p].lookup # "found"
                       /\ call[p].creds # "none"
                       /\ call[p].prepared = Len(call[p].ids)
                       /\ call[p].errList = <<>>
               /\ call[p].pc = "mkgroup"
                    => "CreateVolumeGroup" \notin call[p].ops
               /\ call[p].pc = "snap"
                    => /\ "CreateVolumeGroupSnapshot" \notin call[p].ops
                       /\ call[p].added = Range(call[p].ids)
                       /\ MembersOf(call[p].vg) = Range(call[p].ids)
               /\ "CreateVolumeGroupSnapshot" \in call[p].ops
                    => /\ call[p].pc \in {"rmvol", "delgroup", "release"}
                       /\ call[p].added = Range(call[p].ids)
               /\ call[p].pc = "add" => call[p].volumes[call[p].i] \notin call[p].added
               /\ call[p].pc = "rmvol"
                    => call[p].volumes[call[p].i] \notin call[p].rmCalled)
  /\ [][\A p \in Procs :
          CreateStep(p)
            => /\ call[p].pc = "prepare" /\ call'[p].pc = "mkgroup"
                    => call[p].lookup \in {"notfound", "error"}
               /\ \/ Rank(call'[p].pc) > Rank(call[p].pc)
                  \/ /\ call'[p].pc = call[p].pc
                     /\ call[p].pc \in {"add", "rmvol"}
                     /\ call'[p].i = call[p].i + 1]_vars

\* every volume is added and CreateVolumeGroupSnapshot is the next call
C26_Witness ==
  \E p \in Procs :
    /\ IsCreate(p) /\ call[p].pc = "snap"
    /\ call[p].added = {"v1", "v2"}
    /\ call[p].prepared = 2
    /\ call[p].vg \in groups

\* the cleanup of the call is done: RemoveVolume was called for every
\* volume and Delete for the group, when there is a group, and every
\* resolved volume is freed
CleanupDone(c) ==
  /\ c.creds # "live"
  /\ c.destroyed = {j \in 1..Len(c.ids) : c.volumes[j] # Nil}
  /\ c.vg # Nil => /\ c.rmCalled = Range(c.volumes)
                   /\ "DeleteVolumeGroup" \in c.ops

\* the step in which the handler releases the lock of its Create
Releases(p) ==
  /\ IsCreate(p) /\ PastLock(p)
  /\ call[p].name \in locks /\ call[p].name \notin locks'

CleanupCalls == {"RemoveVolume", "DeleteVolumeGroup"}

\* the step of the cleanup that calls RemoveVolume
RemoveStep(p) ==
  /\ IsCreate(p) /\ call[p].pc = "rmvol"
  /\ call'[p] # call[p]

\* C28 as stated, its last part: the cleanup calls RemoveVolume only for
\* volumes that were added to the group.
C28_Original ==
  \A p \in Procs : IsCreate(p) => call[p].rmCalled \subseteq call[p].added

\* C28, amended: RemoveVolume and the Delete of the group are called only
\* when the group was made; every RemoveVolume comes before the Delete; the
\* Delete is called once whenever the group was made, also after a
\* RemoveVolume failed; and RemoveVolume is called for every volume of the
\* request, added to the group or not: for one that was not added it leaves
\* the memberships as they are.
C28_CleanupScope ==
  /\ [](\A p \in Procs :
          (IsCreate(p) /\ PastLock(p))
            => /\ call[p].vg = Nil
                    => /\ call[p].ops \cap CleanupCalls = {}
                       /\ call[p].rmCalled = {}
               /\ call[p].pc = "rmvol"
                    => /\ call[p].vg # Nil
                       /\ "DeleteVolumeGroup" \notin call[p].ops
                       /\ call[p].rmCalled = Before(call[p], call[p].i)
               /\ call[p].pc = "delgroup"
                    => /\ call[p].vg # Nil
                       /\ "DeleteVolumeGroup" \notin call[p].ops
                       /\ call[p].rmCalled = Range(call[p].volumes)
               /\ "DeleteVolumeGroup" \in call[p].ops => Returning(p)
               /\ (Returning(p) /\ call[p].vg # Nil)
                    => /\ "DeleteVolumeGroup" \in call[p].ops
                       /\ call[p].rmCalled = Range(call[p].volumes)
                       /\ call[p].removed \subseteq call[p].added)
  /\ [][\A p \in Procs :
          RemoveStep(p)
            => /\ call[p].volumes[call[p].i] \in call'[p].rmCalled
               /\ call[p].volumes[call[p].i] \notin call[p].added
                    => members' = members]_vars

\* the second AddVolume failed; RemoveVolume was called for both volumes
\* and failed for one, and the Delete of the group was called and worked
C28_Witness ==
  \E p \in Procs :
    /\ IsCreate(p) /\ Returning(p)
    /\ call[p].failStep = "add" /\ call[p].failIdx = 2
    /\ call[p].added = {"v1"} /\ call[p].rmCalled = {"v1", "v2"}
    /\ call[p].rmFailed /\ ~call[p].delFailed
    /\ call[p].vg \notin groups

\* the places of the volumes slice that hold a resolved volume
Resolved(c) == {j \in 1..Len(c.ids) : c.volumes[j] # Nil}

\* C29: a Create that returns has destroyed every volume it resolved, and
\* no other: after a failed resolution the volumes before the ID that did
\* not resolve, otherwise all volumes of the request; no volume is
\* destroyed before the cleanup, and the cleanup destroys the volumes one by
\* one in the order of the slice, each once.
C29_HandlesReleased ==
  \A p \in Procs :
    (IsCreate(p) /\ PastLock(p))
      => /\ call[p].destroyed \subseteq Resolved(call[p])
         /\ Resolved(call[p]) \subseteq
              {j \in 1..Len(call[p].ids) : call[p].ids[j] \in Vols}
         /\ call[p].pc \notin {"rmvol", "delgroup", "release"}
              => call[p].destroyed = {}
         /\ call[p].pc = "rmvol"
              => call[p].destroyed = 1..(call[p].i - 1)
         /\ call[p].pc \in {"delgroup", "release"}
              => call[p].destroyed = Resolved(call[p])
         /\ Returning(p)
              => Resolved(call[p]) =
                   IF call[p].failStep = "resolve"
                     THEN 1..(call[p].failIdx - 1)
                     ELSE 1..Len(call[p].ids)

\* the second ID did not resolve: the first volume, and no other, is
\* destroyed when the Create returns
C29_Witness ==
  \E p \in Procs :
    /\ IsCreate(p) /\ Returning(p)
    /\ call[p].failStep = "resolve" /\ call[p].failIdx = 2
    /\ call[p].destroyed = {1}
    /\ call[p].volumes[2] = Nil

\* the handler holds the key and returns in this step
OwnerReturns(q, k) ==
  /\ PastLock(q) /\ call[q].name = k /\ Returning(q)
  /\ call'[q] = IdleCall

\* C30: the step in which a Create, Delete or Get is refused at the lock
\* changes neither the keys that are held nor the cluster, makes no call and
\* leaves the call that holds the key as it is; a refused request has
\* returned Aborted without a call; and a key is released only in the step
\* in which the call that holds it returns.
C30_RejectedNoEffect ==
  /\ [](\A p \in Procs :
          call[p].pc = "rejected"
            => /\ ~PastLock(p)
               /\ call[p].code = "Aborted"
               /\ call[p].ops = {}
               /\ call[p].op \in {"create", "delete", "get"})
  /\ [][/\ \A p \in Procs :
             Refused(p)
               => /\ locks' = locks
                  /\ call'[p].name \in locks
                  /\ storage' = storage /\ faults' = faults
                  /\ \A q \in Procs \ {p} : call'[q] = call[q]
        /\ \A k \in locks \ locks' : \E q \in Procs : OwnerReturns(q, k)]_vars

\* a Create is refused while the Create that holds the name is adding its
\* volumes, and the name is still held
C30_Witness ==
  \E p, q \in Procs :
    /\ IsCreate(p) /\ call[p].pc = "add" /\ call[p].added = {"v1"}
    /\ IsCreate(q) /\ call[q].pc = "rejected"
    /\ call[q].name = call[p].name
    /\ call[p].name \in locks

\* the Create of q has its group and runs under another name than p's
OtherGroupOf(p, q) ==
  /\ p # q /\ IsCreate(q) /\ PastLock(q)
  /\ call[q].name # call[p].name
  /\ call[q].vg # Nil
  /\ call[q].pc \in {"add", "snap"}

\* C31: no step of the cleanup of a Create that failed at AddVolume takes a
\* volume out of the group of a concurrent Create with another name or
\* deletes that group; such a Create that has added all its volumes has
\* its group with every one of its volumes in it, and the group snapshot it
\* then makes has every one of them as a member.
C31_CleanupIsolated ==
  /\ [][\A p, q \in Procs :
          (CleanupStep(p) /\ call[p].failStep = "add" /\ OtherGroupOf(p, q))
            => /\ call[q].vg \in groups'
               /\ \A v \in Vols :
                    <<call[q].vg, v>> \in members
                      => <<call[q].vg, v>> \in members'
               /\ call'[q] = call[q]]_vars
  /\ [](\A q \in Procs :
          (IsCreate(q) /\ call[q].pc = "snap")
            => /\ call[q].vg \in groups
               /\ MembersOf(call[q].vg) = Range(call[q].ids))
  /\ [][\A q \in Procs :
          (IsCreate(q) /\ call[q].pc = "snap" /\ call'[q] # call[q]
             /\ call'[q].code = "OK")
            => \E s \in snaps' \ snaps :
                 /\ s.name = call[q].name
                 /\ s.members = Range(call[q].ids)]_vars

\* a Create returns its group snapshot of both volumes while the other
\* Create, which failed to add the first of the same volumes, has removed
\* its volumes and is about to delete its group
C31_Witness ==
  \E p, q \in Procs :
    /\ p # q /\ IsCreate(p) /\ IsCreate(q)
    /\ call[p].name # call[q].name
    /\ call[p].failStep = "add" /\ call[p].failIdx = 1
    /\ call[p].pc = "delgroup"
    /\ call[p].rmCalled = {"v1", "v2"}
    /\ call[q].ids = <<"v1", "v2">>
    /\ call[q].pc = "rmvol" /\ call[q].code = "OK"
    /\ call[q].resp.members = {"v1", "v2"}
    /\ "CreateVolumeGroupSnapshot" \in call[q].ops

\* C32: a Create that returns OK returns one member for each source volume
\* ID of its request and no member for another volume, also when the group
\* snapshot of the name was there before the call.
C32_MembersMatch ==
  \A p \in Procs :
    (IsCreate(p) /\ Returning(p) /\ call[p].code = "OK")
      => /\ call[p].resp.members = Range(call[p].ids)
         /\ Cardinality(call[p].resp.members) = Len(call[p].ids)

\* the Create of p has made the group g and has not returned
OwnsGroup(p, g) == IsCreate(p) /\ PastLock(p) /\ call[p].vg = g

\* C33: of the Create calls in flight at most one has made the group of a
\* given name, is adding volumes to it or is taking it down, and that call
\* holds the lock of its request name.
C33_ExclusiveGroup ==
  /\ \A p \in Procs :
       (IsCreate(p) /\ call[p].vg # Nil)
         => /\ PastLock(p)
            /\ call[p].name \in locks
  /\ \A p, q \in Procs :
       \A g \in {VgName(n) : n \in Names} \cup groups :
         (OwnsGroup(p, g) /\ OwnsGroup(q, g)) => p = q

\* two Creates in flight, each with a group of its own, one adding volumes
\* and one taking its group down
C33_Witness ==
  \E p, q \in Procs :
    /\ p # q
    /\ OwnsGroup(p, VgName("s")) /\ OwnsGroup(q, VgName("s-vg"))
    /\ call[p].pc = "add" /\ call[q].pc = "delgroup"
    /\ {call[p].vg, call[q].vg} \subseteq groups

\* the Create of p made the group snapshot and its conversion failed
ConvertFailed(p) ==
  /\ IsCreate(p) /\ call[p].failStep = "convert"
  /\ "CreateVolumeGroupSnapshot" \in call[p].ops

AfterCreds == {"mkgroup", "add", "snap"}
\* the steps of a Create that run its deferred calls
Deferred == {"rmvol", "delgroup", "release"}

\* C35: a Create gets its credentials only at the step after a lookup that
\* returned no group snapshot, and a Create that found one has none; when
\* NewUserCredentials fails the Create returns Internal and has neither
\* called PrepareVolumeForSnapshot nor made a group; and the credentials a
\* Create got are deleted when it leaves, on every path, before the cleanup
\* and the return.
C35_CredentialScope ==
  /\ [][\A p \in Procs :
          (IsCreate(p) /\ call'[p].creds # call[p].creds
             /\ call[p].creds = "none")
            => /\ call[p].pc = "prepare"
               /\ call[p].lookup \in {"notfound", "error"}]_vars
  /\ [](\A p \in Procs :
          IsCreate(p) =>
            /\ call[p].lookup = "found" => call[p].creds = "none"
            /\ call[p].pc \in {"resolve", "lookup", "prepare"}
                 => call[p].creds = "none"
            /\ call[p].failStep = "creds"
                 => /\ call[p].code = "Internal"
                    /\ call[p].creds = "none"
                    /\ call[p].ops \cap Mutating = {}
                    /\ call[p].vg = Nil
                    /\ call[p].prepared = 0
            /\ call[p].pc \in AfterCreds => call[p].creds = "live"
            /\ call[p].pc \in Deferred => call[p].creds \in {"none", "deleted"}
            /\ (call[p].pc \in Deferred
                  /\ call[p].ops \cap Mutating # {})
                 => call[p].creds = "deleted")
  /\ [][\A p \in Procs :
          (IsCreate(p) /\ call[p].creds = "live" /\ call'[p].creds # "live")
            => /\ call'[p].creds = "deleted"
               /\ call'[p].pc \in Deferred]_vars

\* one Create returns from a failed AddVolume with its credentials deleted,
\* the other returns Internal from NewUserCredentials
C35_Witness ==
  \E p, q \in Procs :
    /\ IsCreate(p) /\ Returning(p)
    /\ call[p].failStep = "add" /\ call[p].creds = "deleted"
    /\ IsCreate(q) /\ Returning(q)
    /\ call[q].failStep = "creds" /\ call[q].code = "Internal"
    /\ call[q].ids = <<"v1", "v2">>

\* a call of the cleanup of the Create of p has failed
CleanupFailed(p) ==
  IsCreate(p) /\ (call[p].rmFailed \/ call[p].delFailed)

QosDone == util.fn = "SetQOS" /\ util.done
\* the parameter k of the StorageClass is present and not empty
Given(k) == Has(util.scParams, k)
\* a string that is a decimal integer: an optional sign and digits
IsInteger(s) ==
  LET body == IF Len(s) > 0 /\ s[1] \in {"+", "-"} THEN Tail(s) ELSE s
  IN  Len(body) > 0 /\ \A j \in 1..Len(body) : body[j] \in Digits
\* the base parameter k has its per-GiB value and the base volume size
Scaled(k) == Given(PerGiBTypeOf(k)) /\ Given(baseVolSizeBytes)
IntOf(k) == ParseInt(util.scParams[k]).val

\* the limit of the base parameter k: the base value as it is given, or
\* base + ((requested - baseVolSize) / 1GiB) * perGiB, every operation on
\* the integers of the width
LimitWanted(k) ==
  IF \/ ~Scaled(k)
     \/ util.rv.RequestedVolSize <= IntOf(baseVolSizeBytes)
    THEN util.scParams[k]
    ELSE FormatInt(Wrap(IntOf(k)
           + Wrap(Wrap(Quo(Wrap(util.rv.RequestedVolSize
                                  - IntOf(baseVolSizeBytes)), oneGB))
                    * IntOf(PerGiBTypeOf(k)))))

\* SetQOS returned no error and has set the limit of every base parameter
\* that is given, and of no other, to the limit wanted
LimitsSet ==
  ~util.err =>
    \A k \in QosBaseKeys :
      IF Given(k)
        THEN /\ LimitTypeOf(k) \in DOMAIN util.rv.QosParameters
             /\ util.rv.QosParameters[LimitTypeOf(k)] = LimitWanted(k)
        ELSE LimitTypeOf(k) \notin DOMAIN util.rv.QosParameters

\* C37 as stated: SetQOS sets the limit of every base parameter that is
\* present and not empty to the base value, or to the value scaled by the
\* capacity, and returns an error when a base, per-GiB or base-size value
\* is not an integer.
C37_Original ==
  QosDone =>
    /\ LimitsSet
    /\ (\E k \in DOMAIN util.scParams :
          Given(k) /\ ~IsInteger(util.scParams[k])) => util.err

\* a value SetQOS parses: the base value of a base parameter that is given,
\* and its per-GiB value and the base volume size when both are given
Parsed(k) ==
  IF ~Given(k) THEN {}
  ELSE IF Scaled(k) THEN {k, PerGiBTypeOf(k), baseVolSizeBytes}
  ELSE {k}

\* C37, amended: SetQOS returns an error exactly when a value it parses is
\* not an integer of the width: the base value of a base parameter that is
\* given, or, when the per-GiB value and the base volume size are both
\* given, one of these two; without an error it has set the limit of every
\* base parameter that is given, and of no other: to the base value when
\* the per-GiB value or the base volume size is not given or the requested
\* size is at most the base volume size, else to the scaled value, which is
\* base + ((requested - baseVolSize) div 1GiB) * perGiB when nothing
\* overflows.
C37_CapacityQos ==
  QosDone =>
    /\ LimitsSet
    /\ util.err = (\E k \in QosBaseKeys : \E x \in Parsed(k) :
                     ~ParseInt(util.scParams[x]).ok)
    /\ util.rv.BaseVolSize = IF Given(baseVolSizeBytes)
                               THEN util.scParams[baseVolSizeBytes] ELSE <<>>
    /\ \A k \in QosBaseKeys :
         LET more == ((util.rv.RequestedVolSize - IntOf(baseVolSizeBytes))
                        \div oneGB) * IntOf(PerGiBTypeOf(k))
         IN  (/\ ~util.err /\ Given(k) /\ Scaled(k)
              /\ util.rv.RequestedVolSize > IntOf(baseVolSizeBytes)
              /\ IntOf(baseVolSizeBytes) >= 0
              /\ IntOf(k) + more <= MaxInt /\ more <= MaxInt)
               => util.rv.QosParameters[LimitTypeOf(k)]
                    = FormatInt(IntOf(k) + more)

\* both limits are scaled: 8 + ((12 - 4) div 4) * 2 and 1 + 2 * 1
C37_Witness ==
  /\ QosDone /\ ~util.err
  /\ util.rv.RequestedVolSize = 12
  /\ Given(baseVolSizeBytes) /\ Given(baseReadIops) /\ Given(readIopsPerGiB)
  /\ util.scParams[baseVolSizeBytes] = <<"4">>
  /\ util.scParams[baseReadIops] = <<"+", "8">>
  /\ util.scParams[readIopsPerGiB] = <<"2">>
  /\ Given(baseWriteIops) /\ Given(writeIopsPerGiB)
  /\ util.rv.QosParameters[readIopsLimit] = <<"1", "2">>
  /\ util.rv.QosParameters[writeIopsLimit] = <<"3">>

\* the AddKey call has returned
AddKeyDone == util.fn = "AddKey" /\ util.pc = "done"
\* the cryptsetup commands of the call that ran, without the temporary files
Commands == SelectSeq(util.log, LAMBDA e : e # "tmp:err")
\* the first luksAddKey of the call ran with this outcome
FirstAdd(out) ==
  /\ util.fn = "AddKey"
  /\ Len(Commands) >= 1 /\ Commands[1] = "add:" \o out
\* the call removed the key of the slot
Removed == \E j \in 1..Len(util.log) : util.log[j] = "kill:ok"

\* C38 as stated: a first add that works returns success; a full slot that
\* holds the new passphrase returns success and removes nothing; a full
\* slot with another key has its key removed and the new key added; any
\* other failure of the add is returned and nothing is removed.
C38_Original ==
  AddKeyDone =>
    /\ FirstAdd("ok") => util.err = "nil"
    /\ (FirstAdd("full") /\ util.dev0.slot = util.newPassphrase) =>
         (util.err = "nil" /\ ~Removed)
    /\ (FirstAdd("full") /\ util.dev0.slot # util.newPassphrase) =>
         (Removed /\ util.dev.slot = util.newPassphrase)
    /\ FirstAdd("err") => (util.err = "luksAddKey" /\ ~Removed)

\* C38: AddKey runs the commands in one of seven orders.  A first add that
\* works returns success; one that fails for another reason than the full
\* slot returns that error; neither verifies nor removes.  On a full slot
\* VerifyKey runs: its error is returned and nothing is removed; a slot that
\* holds the new passphrase returns success and nothing is removed;
\* otherwise RemoveKey runs with the passphrase of the volume: its error is
\* returned and no add follows; after it emptied the slot the add runs
\* once more and AddKey returns what that add returns.
C38_SlotProtocol ==
  AddKeyDone =>
    \/ util.log = <<"tmp:err">> /\ util.err = "tmpfile"
         /\ util.dev = util.dev0
    \/ Commands = <<"add:ok">> /\ util.err = "nil"
         /\ util.dev = [util.dev0 EXCEPT !.slot = util.newPassphrase]
    \/ Commands = <<"add:err">> /\ util.err = "luksAddKey"
         /\ util.dev = util.dev0
    \/ Commands = <<"add:full", "verify:err">> /\ util.err = "luksChangeKey"
         /\ util.dev = util.dev0
    \/ Commands = <<"add:full", "verify:yes">> /\ util.err = "nil"
         /\ util.dev0.slot = util.newPassphrase /\ util.dev = util.dev0
    \/ Commands = <<"add:full", "verify:no", "kill:err">>
         /\ util.err = "luksKillSlot"
         /\ util.dev0.slot # util.newPassphrase /\ util.dev = util.dev0
    \/ /\ util.dev0.slot # util.newPassphrase
       /\ Unlocks(util.dev0, util.passphrase)
       /\ \/ Commands = <<"add:full", "verify:no", "kill:ok", "add:ok">>
               /\ util.err = "nil"
               /\ util.dev = [util.dev0 EXCEPT !.slot = util.newPassphrase]
          \/ Commands = <<"add:full", "verify:no", "kill:ok", "add:err">>
               /\ util.err = "luksAddKey"
               /\ util.dev = [util.dev0 EXCEPT !.slot = NoKey]
          \/ util.log = <<"add:full", "verify:no", "kill:ok", "tmp:err">>
               /\ util.err = "tmpfile"
               /\ util.dev = [util.dev0 EXCEPT !.slot = NoKey]

\* the key of the slot is replaced by the new one
C38_Witness ==
  /\ AddKeyDone
  /\ Commands = <<"add:full", "verify:no", "kill:ok", "add:ok">>
  /\ util.dev0.slot = "other" /\ util.dev.slot = "new"

Retryable ==
  {ErrKeyNotFound, ErrPoolNotFound, ErrImageNotFound, radosErrPermissionDenied}
\* err is one of the four, or wraps one in layers of %w
IsOrWraps(err) ==
  \E j \in 1..Len(err) :
    /\ err[j] \in Retryable
    /\ \A k \in 1..(j - 1) : err[k] = "%w"

\* C40: ShouldRetryVolumeGeneration returns true exactly when the error is
\* or wraps ErrKeyNotFound, ErrPoolNotFound, ErrImageNotFound or
\* rados.ErrPermissionDenied; it returns false for nil and for every other
\* error.
C40_RetryExactly ==
  (util.fn = "ShouldRetryVolumeGeneration" /\ util.done) =>
    /\ util.ret <=> IsOrWraps(util.err)
    /\ util.err = NilError => ~util.ret

\* a pool that is not found, wrapped twice
C40_Witness ==
  /\ util.fn = "ShouldRetryVolumeGeneration" /\ util.done
  /\ util.err = <<"%w", "%w", ErrPoolNotFound>>
  /\ util.ret

====
